---- MODULE Spec2Model ----
(***************************************************************************)
(* Appointment ledger, slot inventory and conversation step machine of the *)
(* WhatsApp clinic assistant (src/main.py, src/services/supabase_service). *)
(*                                                                         *)
(* The record store is the only shared state.  Every record-store call     *)
(* (.execute()) is one atomic step; whatever a function computes locally   *)
(* between two store calls is folded into the step of the preceding call.  *)
(* A step is an operator from (store, frame) to the set of its outcomes:   *)
(* the same operators drive the interleaved actions and the serial         *)
(* reference runs.                                                         *)
(***************************************************************************)
EXTENDS Integers, Sequences, FiniteSets, TLC

VARIABLES slots, appointments, patients, req, faults, hist, lim

vars == <<slots, appointments, patients, req, faults, hist, lim>>

-----------------------------------------------------------------------------
(* Bounds of the model *)

NumHandlers == 2
NumPatients == 2
MaxSlots == 2
MaxAppts == 2
MaxFaults == 1
WebhookMaxSlots == 2
WebhookMaxAppts == 2
RedeliveryMaxSlots == 1
RedeliveryMaxAppts == 3
SerialMaxSlots == 2
SerialMaxAppts == 2
RoundTripMaxSlots == 2
RoundTripMaxAppts == 3
OnboardingMaxFaults == 1
FlowMaxSlots == 1
FlowMaxAppts == 1
FlowFaultsMaxSlots == 2
FlowFaultsMaxAppts == 2
FlowMaxFaults == 1
PatientsMaxFaults == 2
ProfileMaxFaults == 1
DirectMaxSlots == 2
DirectMaxAppts == 2
DirectMaxFaults == 1
NewPatientMaxSlots == 1
NewPatientMaxAppts == 1
FallbackMaxSlots == 1
FallbackMaxAppts == 1
FirstYear == 2023
NumYears == 2

(* Program constants *)

MAX_RETRIES == 3
BASE_DELAY == 1
MAX_DELAY == 8
SlotMinutes == 30
UtcOffsetMinutes == 330
OpenHour == 10
CloseHour == 22
NumMonthOptions == 3
MaxDay == 31
MinAge == 1
MaxAge == 120
max_retries == 3

Handlers == 1..NumHandlers
Patients == 1..NumPatients

NoneV == 0

-----------------------------------------------------------------------------
(* Inbound message bodies: a bare integer, a time of day, or other text.   *)

NumBody(n) == [kind |-> "num", n |-> n, h |-> 0, m |-> 0]
TimeBody(h, m) == [kind |-> "time", n |-> 0, h |-> h, m |-> m]
TextBody == [kind |-> "text", n |-> 0, h |-> 0, m |-> 0]

(* Texts the onboarding guards tell apart (main.py 111, 120, 129, 138):    *)
(*   "name"   two or more alphabetic words                                 *)
(*   "sex"    male, female or other in any case                            *)
(*   "email"  a text that starts with local@domain.tld                     *)
(*   "digit"  a text such as a superscript two, for which str.isdigit()    *)
(*            is true and int() raises ValueError                          *)
KindBody(kind) == [kind |-> kind, n |-> 0, h |-> 0, m |-> 0]

Intents ==
    {"greeting", "request_booking", "request_cancellation",
     "request_reschedule", "dermatology_query", "unknown"}

(* datetime.now(local_tz): local minutes since midnight of day 1 of the    *)
(* current month; the model's clock stands at 10:05 on day 1.              *)
NowLocal == 605

(* datetime(year, month, day, hour, minute, tzinfo=local_tz) as local      *)
(* minutes; month is the chosen month option (1 = current month).          *)
start_time_local(month, day, h, m) ==
    (((month - 1) * MaxDay) + (day - 1)) * 1440 + h * 60 + m

(* A conversion that takes the local wall-clock time for UTC *)
astimezone_utc_naive(local) == local

(* .astimezone(ZoneInfo("UTC")) of an Asia/Kolkata instant *)
astimezone_utc(local) == local - UtcOffsetMinutes

(* datetime.fromisoformat(appt['appointment_time']...).astimezone(           *)
(* ZoneInfo("Asia/Kolkata")) (main.py 295, 307): the local minutes of a UTC  *)
(* instant, shown with strftime as day, hour and minute                      *)
astimezone_kolkata(utc) ==
    LET local == utc + UtcOffsetMinutes
    IN  [day |-> (local \div 1440) + 1, hour |-> (local % 1440) \div 60,
         minute |-> local % 60]

-----------------------------------------------------------------------------
(* Booking context (patients.notes as JSON) *)

EmptyCtx == [appointments |-> <<>>, month_options |-> <<>>, month |-> 0, day |-> 0]

(* Patient row; find_or_create_patient inserts a placeholder full_name,    *)
(* age 0 stands for no age                                                 *)
NewPatient(step, completed) ==
    [onboarding_step |-> step, onboarding_completed |-> completed, notes |-> EmptyCtx,
     full_name |-> IF completed THEN "given" ELSE "placeholder",
     age |-> IF completed THEN MinAge ELSE 0,
     gender |-> completed, email |-> completed]

(* The store as one value *)
DB == [slots |-> slots, appts |-> appointments, pats |-> patients]

EmptyDB(pats) == [slots |-> <<>>, appts |-> <<>>, pats |-> pats]

-----------------------------------------------------------------------------
(* A frame: the locals of one request (or one direct ledger call).         *)

(* Where a caller stands in the book / cancel / re-book round trip *)
NoRoundTrip == [phase |-> 0, start |-> 0, slot |-> 0, first |-> 0]

(* What is kept of one observed webhook request (it steers nothing):       *)
(*   before     the store when the message arrived                         *)
(*   body       the message                                                *)
(*   step       current_step as the request read it (main.py 98)           *)
(*   completed  onboarding_completed as the request read it (main.py 99)   *)
(*   intent     the classifier's answer (main.py 149)                      *)
(*   faulted    a store call of the request raised                         *)
(*   failed     a ledger or profile function returned its failure value    *)
(*   found      find_or_create_availability_slot was called / its result   *)
(*   booked     book_slot was called / its result                          *)
(*   calendar   the outcome of create_calendar_event                       *)
NoObs ==
    [on |-> FALSE, before |-> EmptyDB(<<>>), body |-> TextBody, step |-> "none",
     completed |-> FALSE, intent |-> "none", faulted |-> FALSE, failed |-> FALSE,
     found |-> [called |-> FALSE, result |-> 0],
     booked |-> [called |-> FALSE, result |-> 0],
     calendar |-> "none"]

IdleFrame ==
    [pc |-> "idle", top |-> "none", op |-> "none", obs |-> NoObs,
     patient |-> 0, body |-> TextBody, intent |-> "none",
     step |-> "none", ctx |-> EmptyCtx, completed |-> FALSE,
     start |-> 0, slot |-> 0, appt |-> 0, attempt |-> 0,
     result |-> 0, list |-> <<>>, todo |-> <<>>, reply |-> "none",
     faulted |-> FALSE, disturbed |-> FALSE, pre |-> FALSE,
     reserved |-> FALSE, inserted |-> FALSE, held |-> FALSE, rivals |-> {},
     rt |-> NoRoundTrip]

(* One outcome of a step *)
Out(db, f, fault) == [db |-> db, f |-> f, fault |-> fault]

(* The observations are those of the direct callers *)
Faulted(f) == IF f.top = "direct" THEN [f EXCEPT !.faulted = TRUE] ELSE f
Reserved(f) == IF f.top = "direct" THEN [f EXCEPT !.reserved = TRUE] ELSE f
Inserted(f) == IF f.top = "direct" THEN [f EXCEPT !.inserted = TRUE] ELSE f

(* The observations of an observed webhook request *)
Note(f, field, v) == IF f.obs.on THEN [f EXCEPT !.obs[field] = v] ELSE f

-----------------------------------------------------------------------------
(* Pending patient-row writes of a request, in program order *)

StepWrite(s) == [w |-> "step", step |-> s, ctx |-> EmptyCtx, field |-> "none", n |-> 0]
CtxWrite(c) == [w |-> "ctx", step |-> "none", ctx |-> c, field |-> "notes", n |-> 0]
(* The other calls a request makes after it has chosen its branch:        *)
(*   "field"     update_profile_field of the field name with a value, the  *)
(*               value being a text or (NumBody) an integer                *)
(*   "email"     update_patient_email                                      *)
(*   "complete"  complete_profile_update                                   *)
(*   "calendar"  create_calendar_event after the two writes of a booking   *)
Pending(w, name, value) ==
    [w |-> w, step |-> "none", ctx |-> EmptyCtx, field |-> name, value |-> value]

(* for i in range(3): months.append(...)  (main.py 193-195, 280-282) *)
months == [i \in 1..NumMonthOptions |-> i]

(* The webhook is about to return its reply: no local is read again *)
Finished(f, reply) ==
    [IdleFrame EXCEPT !.pc = "done", !.top = "webhook", !.op = "webhook",
                      !.patient = f.patient, !.reply = reply, !.obs = f.obs]

(* The webhook has composed its reply and goes on to its patient-row       *)
(* writes: of its locals only the patient id is read again                 *)
Writes(f, reply, todo) ==
    [IdleFrame EXCEPT !.pc = "writes", !.top = "webhook", !.op = "webhook",
                      !.patient = f.patient, !.reply = reply, !.todo = todo,
                      !.obs = f.obs]

(* Entry of the three ledger functions: arguments and entry observations *)
call_book_slot(db, f, slot_id) ==
    [f EXCEPT !.pc = "book_update", !.op = "book", !.slot = slot_id,
              !.body = TextBody, !.ctx = EmptyCtx, !.attempt = 0, !.result = NoneV,
              !.faulted = FALSE, !.disturbed = FALSE,
              !.reserved = FALSE, !.inserted = FALSE, !.held = FALSE,
              !.rivals = {},
              !.pre = (/\ f.top = "direct"
                       /\ slot_id \in DOMAIN db.slots
                       /\ ~db.slots[slot_id].is_booked)]

call_cancel_appointment(db, f, appointment_id, availability_id) ==
    [f EXCEPT !.pc = "cancel_update", !.op = "cancel",
              !.body = TextBody, !.ctx = EmptyCtx,
              !.appt = appointment_id, !.slot = availability_id,
              !.attempt = 0, !.result = NoneV,
              !.faulted = FALSE, !.disturbed = FALSE,
              !.reserved = FALSE, !.inserted = FALSE, !.held = FALSE,
              !.pre = (/\ f.top = "direct"
                       /\ appointment_id \in DOMAIN db.appts
                       /\ db.appts[appointment_id].status = "cancelled")]

call_find_or_create_availability_slot(db, f, start_time) ==
    [f EXCEPT !.pc = "foc_select", !.op = "find_or_create",
              !.body = TextBody, !.ctx = EmptyCtx,
              !.start = start_time, !.slot = NoneV,
              !.attempt = 0, !.result = NoneV,
              !.faulted = FALSE, !.disturbed = FALSE,
              !.reserved = FALSE, !.inserted = FALSE, !.held = FALSE,
              !.pre = (/\ f.top = "direct"
                       /\ \A i \in DOMAIN db.slots :
                              db.slots[i].slot_start_time # start_time)]

call_get_upcoming_appointments(f) ==
    [f EXCEPT !.pc = "upcoming", !.op = "upcoming", !.attempt = 0,
              !.body = TextBody, !.ctx = EmptyCtx,
              !.result = NoneV, !.list = <<>>, !.faulted = FALSE,
              !.step = "none"]

(* main.py 168-174: back in the cancellation-choice step *)
after_cancel_choice(f, success) ==
    Writes(f, IF success THEN "cancelled" ELSE "cancel_error",
           <<StepWrite("start"), CtxWrite(EmptyCtx)>>)

(* main.py 188-199: back in the reschedule-choice step; the result of      *)
(* cancel_appointment is not looked at                                     *)
after_cancel_reschedule(f) ==
    Writes(f, "choose_month",
           <<StepWrite("awaiting_month_selection"),
             CtxWrite([EmptyCtx EXCEPT !.month_options = months])>>)

(* main.py 252-274: back in the time-selection step *)
after_find_or_create(db, f, available_slot) ==
    IF available_slot # NoneV
    THEN call_book_slot(db, f, available_slot)
    ELSE Finished(f, "slot_taken")

(* main.py 254-272: the two writes, then create_calendar_event, then the   *)
(* confirmation text; until that text is added the response is empty       *)
after_book_slot(f, appointment) ==
    IF appointment # NoneV
    THEN Writes(f, "empty", <<CtxWrite(EmptyCtx), StepWrite("start"),
                            Pending("calendar", "none", TextBody)>>)
    ELSE Finished(f, "just_booked")

(* main.py 289-312 *)
after_upcoming(f, upcoming_appointments) ==
    IF upcoming_appointments = <<>>
    THEN Finished(f, IF f.intent = "request_cancellation"
                     THEN "nothing_to_cancel" ELSE "nothing_to_reschedule")
    ELSE IF f.intent = "request_cancellation"
    THEN Writes(f, "which_to_cancel",
                <<CtxWrite([EmptyCtx EXCEPT !.appointments = upcoming_appointments]),
                  StepWrite("awaiting_cancellation_choice")>>)
    ELSE Writes(f, "which_to_reschedule",
                <<CtxWrite([EmptyCtx EXCEPT !.appointments = upcoming_appointments]),
                  StepWrite("awaiting_reschedule_choice")>>)

(* A ledger function returns v (0 is None/False, 1 is True for cancel):    *)
(* a direct call ends, a webhook request goes on where it called.          *)
Return(db, f, v) ==
    LET r == [f EXCEPT !.result = v]
        g == CASE f.op = "cancel" /\ v = NoneV -> Note(r, "failed", TRUE)
               [] f.op = "find_or_create" ->
                      Note(r, "found", [called |-> TRUE, result |-> v])
               [] f.op = "book" -> Note(r, "booked", [called |-> TRUE, result |-> v])
               [] OTHER -> r
    IN  IF f.top = "direct"
        THEN [g EXCEPT !.pc = "done", !.patient = 0, !.attempt = 0,
                       !.held = (f.slot \in DOMAIN db.slots
                                 /\ db.slots[f.slot].is_booked)]
        ELSE CASE f.op = "cancel" /\ f.step = "awaiting_cancellation_choice" ->
                      after_cancel_choice(g, v # NoneV)
               [] f.op = "cancel" -> after_cancel_reschedule(g)
               [] f.op = "find_or_create" -> after_find_or_create(db, g, v)
               [] f.op = "book" -> after_book_slot(g, v)
               [] OTHER -> Finished(g, "none")

(* retry_with_backoff giving up one attempt later *)
retry_with_backoff_four(db, f, first, failval) ==
    IF f.attempt = MAX_RETRIES
    THEN Return(db, Faulted(f), failval)
    ELSE [Faulted(f) EXCEPT !.attempt = @ + 1, !.pc = first]

(* retry_with_backoff: an exception on attempts 0 and 1 re-runs the whole  *)
(* operation from its first store call; on the last attempt it reaches the *)
(* caller's except clause, which returns failval.                          *)
retry_with_backoff(db, f, first, failval) ==
    IF f.attempt = MAX_RETRIES - 1
    THEN Return(db, Faulted(f), failval)
    ELSE [Faulted(f) EXCEPT !.attempt = @ + 1, !.pc = first]

-----------------------------------------------------------------------------
(* book_slot (supabase_service.py 186-239) *)

(* A reservation that leaves out .eq('is_booked', False) *)
book_slot_update_unconditional(db, f, fl) ==
    IF f.slot \in DOMAIN db.slots
    THEN {Out([db EXCEPT !.slots[f.slot].is_booked = TRUE],
              [Reserved(f) EXCEPT !.pc = "book_insert"], FALSE)}
    ELSE {Out(db, Return(db, f, NoneV), FALSE)}

(* update({'is_booked': True}).eq('id', slot_id).eq('is_booked', False) *)
book_slot_update(db, f, fl) ==
    LET hit == f.slot \in DOMAIN db.slots /\ ~db.slots[f.slot].is_booked
    IN  (IF hit
         THEN {Out([db EXCEPT !.slots[f.slot].is_booked = TRUE],
                   [Reserved(f) EXCEPT !.pc = "book_insert"], FALSE)}
         ELSE {Out(db, Return(db, f, NoneV), FALSE)})
        \cup
        (IF fl THEN {Out(db, Return(db, Faulted(f), NoneV), TRUE)}
               ELSE {})

(* supabase_service.py 204-213 with the row inserted as a pending request   *)
(* instead of a confirmed appointment                                      *)
book_slot_insert_pending(db, f, fl) ==
    LET row == [patient_id |-> f.patient, availability_id |-> f.slot,
                appointment_time |-> db.slots[f.slot].slot_start_time,
                status |-> "pending"]
        new == [db EXCEPT !.appts = Append(@, row)]
    IN  {Out(new, Return(new, Inserted(f), Len(new.appts)), FALSE)}
        \cup
        (IF fl
         THEN {Out(db, Return(db, Faulted(f), NoneV), TRUE),
               Out(db, [Faulted(f) EXCEPT !.pc = "book_revert"], TRUE)}
         ELSE {})

(* table('appointments').insert(appointment_data) *)
book_slot_insert(db, f, fl) ==
    LET row == [patient_id |-> f.patient, availability_id |-> f.slot,
                appointment_time |-> db.slots[f.slot].slot_start_time,
                status |-> "confirmed"]
        new == [db EXCEPT !.appts = Append(@, row)]
    IN  {Out(new, Return(new, Inserted(f), Len(new.appts)), FALSE)}
        \cup
        (IF fl
         THEN {\* the insert raises: except clause, return None
               Out(db, Return(db, Faulted(f), NoneV), TRUE),
               \* the insert returns no row: go on to un-book the slot
               Out(db, [Faulted(f) EXCEPT !.pc = "book_revert"], TRUE)}
         ELSE {})

(* update({'is_booked': False}).eq('id', slot_id), then return None *)
book_slot_revert(db, f, fl) ==
    LET new == [db EXCEPT !.slots[f.slot].is_booked = FALSE]
    IN  {Out(new, Return(new, f, NoneV), FALSE)}
        \cup
        (IF fl THEN {Out(db, Return(db, f, NoneV), TRUE)} ELSE {})

-----------------------------------------------------------------------------
(* cancel_appointment (supabase_service.py 412-450) *)

(* A status update that matches confirmed appointments only *)
cancel_appointment_update_confirmed_only(db, f, fl) ==
    LET hit == f.appt \in DOMAIN db.appts /\ db.appts[f.appt].status = "confirmed"
        new == [db EXCEPT !.appts[f.appt].status = "cancelled"]
    IN  IF ~hit THEN {Out(db, Return(db, f, 0), FALSE)}
        ELSE IF f.slot = NoneV THEN {Out(new, Return(new, f, 1), FALSE)}
        ELSE {Out(new, [f EXCEPT !.pc = "cancel_release"], FALSE)}

(* update({'status': 'cancelled'}).eq('id', appointment_id) *)
cancel_appointment_update(db, f, fl) ==
    LET hit == f.appt \in DOMAIN db.appts
        new == [db EXCEPT !.appts[f.appt].status = "cancelled"]
    IN  (IF ~hit THEN {Out(db, Return(db, f, 0), FALSE)}
         ELSE IF f.slot = NoneV THEN {Out(new, Return(new, f, 1), FALSE)}
         ELSE {Out(new, [f EXCEPT !.pc = "cancel_release"], FALSE)})
        \cup
        (IF fl
         THEN {Out(db, retry_with_backoff(db, f, "cancel_update", 0), TRUE),
               Out(db, Return(db, Faulted(f), 0), TRUE)}
         ELSE {})

(* A cancellation that leaves the slot as it is *)
cancel_appointment_release_skipped(db, f, fl) ==
    {Out(db, Return(db, f, 1), FALSE)}

(* A release that reports failure when no slot has the id *)
cancel_appointment_release_strict(db, f, fl) ==
    LET hit == f.slot \in DOMAIN db.slots
        new == IF hit THEN [db EXCEPT !.slots[f.slot].is_booked = FALSE] ELSE db
    IN  {Out(new, Return(new, f, IF hit THEN 1 ELSE 0), FALSE)}
        \cup
        (IF fl
         THEN {Out(db, retry_with_backoff(db, f, "cancel_update", 0), TRUE),
               Out(db, Return(db, Faulted(f), 1), TRUE)}
         ELSE {})

(* update({'is_booked': False}).eq('id', availability_id): no row back is  *)
(* only a warning                                                          *)
cancel_appointment_release(db, f, fl) ==
    LET hit == f.slot \in DOMAIN db.slots
        new == IF hit THEN [db EXCEPT !.slots[f.slot].is_booked = FALSE] ELSE db
    IN  {Out(new, Return(new, f, 1), FALSE)}
        \cup
        (IF fl
         THEN {Out(db, retry_with_backoff(db, f, "cancel_update", 0), TRUE),
               Out(db, Return(db, Faulted(f), 1), TRUE)}
         ELSE {})

-----------------------------------------------------------------------------
(* find_or_create_availability_slot (supabase_service.py 278-344) *)

(* select('*').eq('slot_start_time', start): existing_result.data[0] is    *)
(* any of the matching rows (the query states no order)                    *)
find_or_create_select(db, f, fl) ==
    LET rows == {i \in DOMAIN db.slots : db.slots[i].slot_start_time = f.start}
    IN  (IF rows = {} THEN {Out(db, [f EXCEPT !.pc = "foc_overlap"], FALSE)}
         ELSE {Out(db, Return(db, f, IF db.slots[i].is_booked THEN NoneV ELSE i), FALSE)
                 : i \in rows})
        \cup
        (IF fl THEN {Out(db, retry_with_backoff(db, f, "foc_select", NoneV), TRUE)}
               ELSE {})

(* An overlap query that leaves out .eq('is_booked', True) *)
find_or_create_overlap_any(db, f, fl) ==
    LET end_time == f.start + SlotMinutes
        rows == {i \in DOMAIN db.slots :
                    /\ db.slots[i].slot_start_time < end_time
                    /\ db.slots[i].slot_end_time > f.start}
    IN  (IF rows # {} THEN {Out(db, Return(db, f, NoneV), FALSE)}
         ELSE {Out(db, [f EXCEPT !.pc = "foc_insert"], FALSE)})
        \cup
        (IF fl THEN {Out(db, retry_with_backoff(db, f, "foc_select", NoneV), TRUE)}
               ELSE {})

(* .lt('slot_start_time', end).gt('slot_end_time', start).eq('is_booked', True) *)
find_or_create_overlap(db, f, fl) ==
    LET end_time == f.start + SlotMinutes
        rows == {i \in DOMAIN db.slots :
                    /\ db.slots[i].slot_start_time < end_time
                    /\ db.slots[i].slot_end_time > f.start
                    /\ db.slots[i].is_booked}
    IN  (IF rows # {} THEN {Out(db, Return(db, f, NoneV), FALSE)}
         ELSE {Out(db, [f EXCEPT !.pc = "foc_insert"], FALSE)})
        \cup
        (IF fl THEN {Out(db, retry_with_backoff(db, f, "foc_select", NoneV), TRUE)}
               ELSE {})

(* table('doctor_availability').insert(slot_data) *)
find_or_create_insert(db, f, fl) ==
    LET row == [slot_start_time |-> f.start,
                slot_end_time |-> f.start + SlotMinutes, is_booked |-> FALSE]
        new == [db EXCEPT !.slots = Append(@, row)]
    IN  {Out(new, Return(new, Inserted(f), Len(new.slots)), FALSE)}
        \cup
        (IF fl
         THEN {Out(db, Return(db, Faulted(f), NoneV), TRUE),
               Out(db, retry_with_backoff(db, f, "foc_select", NoneV), TRUE)}
         ELSE {})

-----------------------------------------------------------------------------
(* get_upcoming_appointments (supabase_service.py 346-370) *)

RECURSIVE order_by_time(_, _)
order_by_time(db, ids) ==
    IF ids = {} THEN <<>>
    ELSE LET first == CHOOSE i \in ids : \A j \in ids :
                          \/ db.appts[i].appointment_time < db.appts[j].appointment_time
                          \/ /\ db.appts[i].appointment_time = db.appts[j].appointment_time
                             /\ i <= j
         IN  <<[id |-> first, availability_id |-> db.appts[first].availability_id]>>
             \o order_by_time(db, ids \ {first})

get_upcoming_appointments(db, f, fl) ==
    LET now_utc == astimezone_utc(NowLocal)
        rows == {i \in DOMAIN db.appts :
                    /\ db.appts[i].patient_id = f.patient
                    /\ db.appts[i].status = "confirmed"
                    /\ db.appts[i].appointment_time >= now_utc}
    IN  {Out(db, after_upcoming(f, order_by_time(db, rows)), FALSE)}
        \cup
        (IF fl
         THEN {Out(db, IF f.attempt = MAX_RETRIES - 1
                       THEN after_upcoming(f, <<>>)
                       ELSE [f EXCEPT !.attempt = @ + 1], TRUE)}
         ELSE {})

-----------------------------------------------------------------------------
(* whatsapp_webhook (main.py 82-358), the branch of an onboarded patient *)

IsInt(body) == body.kind = "num"

(* main.py 161-178 and 181-203 *)
appointment_choice(db, f, bad_number_reply) ==
    LET candidates == f.ctx.appointments
    IN  IF ~IsInt(f.body) THEN Finished(f, bad_number_reply)
        ELSE IF 1 <= f.body.n /\ f.body.n <= Len(candidates)
        THEN call_cancel_appointment(db, [f EXCEPT !.intent = "none"],
                                     candidates[f.body.n].id,
                                     candidates[f.body.n].availability_id)
        ELSE Finished(f, "not_a_valid_number")

(* A month choice without the range check: an integer outside the list    *)
(* takes its last entry                                                    *)
month_selection_unchecked(f) ==
    LET month_options == f.ctx.month_options
    IN  IF ~IsInt(f.body) THEN Finished(f, "month_number_only")
        ELSE Writes(f, "enter_date",
                    <<CtxWrite([EmptyCtx EXCEPT !.month =
                                   IF 1 <= f.body.n /\ f.body.n <= Len(month_options)
                                   THEN month_options[f.body.n]
                                   ELSE month_options[Len(month_options)]]),
                      StepWrite("awaiting_date_selection")>>)

(* main.py 208-221 *)
month_selection(f) ==
    LET month_options == f.ctx.month_options
    IN  IF ~IsInt(f.body) THEN Finished(f, "month_number_only")
        ELSE IF 1 <= f.body.n /\ f.body.n <= Len(month_options)
        THEN Writes(f, "enter_date",
                    <<CtxWrite([EmptyCtx EXCEPT !.month = month_options[f.body.n]]),
                      StepWrite("awaiting_date_selection")>>)
        ELSE Finished(f, "invalid_month")

(* A date handler that takes the day only from a message classified as a  *)
(* booking request                                                         *)
date_selection_classified(f) ==
    IF IsInt(f.body) /\ 1 <= f.body.n /\ f.body.n <= MaxDay
       /\ f.intent = "request_booking"
    THEN Writes(f, "enter_time",
                <<CtxWrite([f.ctx EXCEPT !.day = f.body.n]),
                  StepWrite("awaiting_time_selection")>>)
    ELSE Finished(f, "invalid_date")

(* A date handler that refuses a day the chosen month does not have *)
date_selection_month_length(f) ==
    IF IsInt(f.body) /\ 1 <= f.body.n /\ f.body.n <= MaxDay
       /\ f.body.n <= <<31, 30, 31>>[f.ctx.month]
    THEN Writes(f, "enter_time",
                <<CtxWrite([f.ctx EXCEPT !.day = f.body.n]),
                  StepWrite("awaiting_time_selection")>>)
    ELSE Finished(f, "invalid_date")

(* main.py 223-233 *)
date_selection(f) ==
    IF IsInt(f.body) /\ 1 <= f.body.n /\ f.body.n <= MaxDay
    THEN Writes(f, "enter_time",
                <<CtxWrite([f.ctx EXCEPT !.day = f.body.n]),
                  StepWrite("awaiting_time_selection")>>)
    ELSE Finished(f, "invalid_date")

(* The days of the three months on offer: the clock stands in a month of  *)
(* 31 days, which a month of 30 days follows                               *)
monthrange == <<31, 30, 31>>

(* main.py 235-251; dateparser reads a time of day only from a time text;  *)
(* a context without year, month or day raises KeyError, and datetime()    *)
(* raises ValueError for a day the month does not have (main.py 354-358)   *)
time_selection(db, f) ==
    IF f.body.kind # "time" THEN Finished(f, "time_not_understood")
    ELSE IF f.ctx.month = 0 \/ f.ctx.day = 0 THEN Finished(f, "system_error")
    ELSE IF f.ctx.day > monthrange[f.ctx.month] THEN Finished(f, "system_error")
    ELSE LET local == start_time_local(f.ctx.month, f.ctx.day, f.body.h, f.body.m)
         IN  IF ~(OpenHour <= f.body.h /\ f.body.h < CloseHour)
             THEN Finished(f, "outside_hours")
             ELSE IF local < NowLocal THEN Finished(f, "in_the_past")
             ELSE call_find_or_create_availability_slot(
                      db, [f EXCEPT !.intent = "none", !.step = "none"],
                      astimezone_utc(local))

IsAwaiting(step) ==
    step \in {"awaiting_name", "awaiting_age", "awaiting_sex", "awaiting_email",
              "awaiting_month_selection", "awaiting_date_selection",
              "awaiting_time_selection", "awaiting_cancellation_choice",
              "awaiting_reschedule_choice"}

(* A router that runs the handler of an awaiting_ step before it looks for *)
(* a greeting                                                              *)
dispatch_step_first(db, f) ==
    IF IsAwaiting(f.step)
    THEN CASE f.step = "awaiting_cancellation_choice" ->
                  appointment_choice(db, f, "cancel_number_only")
           [] f.step = "awaiting_reschedule_choice" ->
                  appointment_choice(db, f, "reschedule_number_only")
           [] f.step = "awaiting_month_selection" -> month_selection(f)
           [] f.step = "awaiting_date_selection" -> date_selection(f)
           [] f.step = "awaiting_time_selection" -> time_selection(db, f)
           [] OTHER -> Finished(f, "empty")
    ELSE IF f.intent = "greeting" /\ f.step \notin {"start", "completed"}
    THEN Writes(f, "start_over", <<StepWrite("start"), CtxWrite(EmptyCtx)>>)
    ELSE CASE f.intent = "request_booking" ->
                  Writes(f, "choose_month",
                         <<StepWrite("awaiting_month_selection"),
                           CtxWrite([EmptyCtx EXCEPT !.month_options = months])>>)
           [] f.intent \in {"request_cancellation", "request_reschedule"} ->
                  call_get_upcoming_appointments(f)
           [] f.intent = "dermatology_query" -> Finished(f, "answer")
           [] f.intent = "greeting" -> Finished(f, "hello")
           [] OTHER -> Finished(f, "not_understood")

(* main.py 148-348: the router, once patient, step and intent are known *)
dispatch(db, f) ==
    IF f.intent = "greeting" /\ f.step \notin {"start", "completed"}
    THEN Writes(f, "start_over", <<StepWrite("start"), CtxWrite(EmptyCtx)>>)
    ELSE IF IsAwaiting(f.step)
    THEN CASE f.step = "awaiting_cancellation_choice" ->
                  appointment_choice(db, f, "cancel_number_only")
           [] f.step = "awaiting_reschedule_choice" ->
                  appointment_choice(db, f, "reschedule_number_only")
           [] f.step = "awaiting_month_selection" -> month_selection(f)
           [] f.step = "awaiting_date_selection" -> date_selection(f)
           [] f.step = "awaiting_time_selection" -> time_selection(db, f)
           [] OTHER -> Finished(f, "empty")
    ELSE CASE f.intent = "request_booking" ->
                  Writes(f, "choose_month",
                         <<StepWrite("awaiting_month_selection"),
                           CtxWrite([EmptyCtx EXCEPT !.month_options = months])>>)
           [] f.intent \in {"request_cancellation", "request_reschedule"} ->
                  call_get_upcoming_appointments(f)
           [] f.intent = "dermatology_query" -> Finished(f, "answer")
           [] f.intent = "greeting" -> Finished(f, "hello")
           [] OTHER -> Finished(f, "not_understood")

(* main.py 102-145: the branch of a patient whose onboarding_completed was *)
(* read as false; the classifier is not asked, the results of the profile  *)
(* writes are not looked at, and a step outside the chain gets no message  *)
onboarding(f) ==
    CASE f.step = "start" -> Writes(f, "welcome", <<StepWrite("awaiting_name")>>)
      [] f.step = "awaiting_name" ->
             IF f.body.kind = "name"
             THEN Writes(f, "ask_age", <<Pending("field", "full_name", f.body),
                                         StepWrite("awaiting_age")>>)
             ELSE Finished(f, "invalid_name")
      [] f.step = "awaiting_age" ->
             IF f.body.kind = "digit" THEN Finished(f, "system_error")
             ELSE IF f.body.kind = "num" /\ 0 <= f.body.n
                     /\ MinAge <= f.body.n /\ f.body.n <= MaxAge
             THEN Writes(f, "ask_sex", <<Pending("field", "age", NumBody(f.body.n)),
                                         StepWrite("awaiting_sex")>>)
             ELSE Finished(f, "invalid_age")
      [] f.step = "awaiting_sex" ->
             IF f.body.kind = "sex"
             THEN Writes(f, "ask_email", <<Pending("field", "gender", f.body),
                                           StepWrite("awaiting_email")>>)
             ELSE Finished(f, "invalid_sex")
      [] f.step = "awaiting_email" ->
             IF f.body.kind = "email"
             THEN Writes(f, "profile_complete", <<Pending("email", "email", f.body),
                                                  Pending("complete", "none", TextBody)>>)
             ELSE Finished(f, "invalid_email")
      [] OTHER -> Finished(f, "empty")

(* The rule-based classifier (src/services/gemini_service.py 211-460),      *)
(* which analyze_message falls back on                                     *)

(* required_entities (128-132) and base_entities (288-300): every entity   *)
(* key, each null.  An entity value is a text; KindBody("null") is None.   *)
required_entities ==
    [k \in {"slot_number", "profile_choice", "email", "age", "gender",
            "blood_group", "current_symptoms", "allergies", "date_preference",
            "time_preference", "custom_request"} |-> KindBody("null")]

(* _get_fallback_response without the rule for other, others and          *)
(* different at 305-311: such a text reaches the later rules, of which the *)
(* gender rule (358) and the custom request rule (372) match it            *)
get_fallback_response_without_other_rule(message, current_step, is_onboarding_complete) ==
    LET number_value == message.kind \in {"num", "padded"}
        one_of(lo, hi) == message.kind = "num" /\ message.n \in lo..hi
        symptoms_step == current_step = "current_symptoms"
        greeting_step == /\ ~symptoms_step
                         /\ is_onboarding_complete
                         /\ current_step \in {"start", "none", "completed"}
        age_step == ~symptoms_step /\ ~greeting_step /\ current_step = "age"
        gender_match == message.kind \in {"other", "gender", "custom_date", "symptom_date",
                                          "booking"}
        has_symptoms == message.kind \in {"symptom", "symptom_date"}
        has_date_and_time == message.kind \in {"custom_date", "symptom_date"}
        has_other_request == message.kind = "other"
        answer(intent, key) ==
            [intent |-> intent,
             entities |-> IF key = "none" THEN required_entities
                          ELSE (key :> message) @@ required_entities]
    IN  IF current_step = "awaiting_custom_date"
        THEN answer("request_custom_date", "date_preference")
        ELSE IF number_value /\ symptoms_step /\ one_of(1, 5)
        THEN answer("select_slot", "slot_number")
        ELSE IF number_value /\ greeting_step /\ one_of(1, 4)
        THEN answer("profile_choice", "profile_choice")
        ELSE IF number_value /\ age_step /\ message.n \in MinAge..MaxAge
        THEN answer("provide_age", "age")
        ELSE IF message.kind = "email"
        THEN answer("provide_email", "email")
        ELSE IF gender_match /\ current_step = "gender"
        THEN answer("provide_gender", "gender")
        ELSE IF has_other_request
        THEN answer("request_custom_date", "custom_request")
        ELSE IF has_date_and_time
        THEN [intent |-> "request_custom_date",
              entities |-> [required_entities EXCEPT !["date_preference"] = message,
                                                     !["time_preference"] = message]]
        ELSE IF current_step \in {"allergies", "update_allergies"}
        THEN answer("provide_allergies", "allergies")
        ELSE IF symptoms_step /\ has_symptoms /\ ~number_value
        THEN answer("provide_current_symptoms", "current_symptoms")
        ELSE IF message.kind = "greeting"
        THEN answer("greeting", "none")
        ELSE IF message.kind = "booking"
        THEN answer("start_onboarding", "none")
        ELSE answer("unknown", "none")

(* _get_fallback_response over the texts it tells apart:                   *)
(*   "num"      a bare integer in its shortest decimal form ("3")          *)
(*   "padded"   a bare integer written with leading zeros ("03"); both     *)
(*              match ^(\d+)$, only the first can equal '1' .. '5'         *)
(*   "blank"    the empty or a whitespace-only message                     *)
(*   "other"    other, others or different in any case                     *)
(*   "email"    a text holding an e-mail address                           *)
(*   "symptom"  a text with a symptom keyword ("headache")                 *)
(*   "gender"   a text with a gender word and nothing else ("female")      *)
(*   "custom_date"   a date word and a time of day ("tomorrow 3pm")        *)
(*   "symptom_date"  both of them ("headache tomorrow 3pm")                *)
(*   "greeting" hi, hello, hey or start in any case                        *)
(*   "booking"  a text with a booking phrase ("book appointment")          *)
(*   "text"     a text with none of the keywords ("xyz")                   *)
(* Every other text of the model (a time such as "10:15", a name) holds    *)
(* none of the keywords either.  gender_match (260-265) is a substring     *)
(* test for male, female, other, m and f, so "other", "female", "tomorrow  *)
(* 3pm", "headache tomorrow 3pm" and "book appointment" have one and       *)
(* "headache", "hi" and "xyz" have none.  None of the texts holds a keep,  *)
(* blood group, quick booking or profile keyword, so the branches at 343,  *)
(* 365 and 414 are not taken.  The step None is "none".                    *)
get_fallback_response(message, current_step, is_onboarding_complete) ==
    LET number_value == message.kind \in {"num", "padded"}
        one_of(lo, hi) == message.kind = "num" /\ message.n \in lo..hi
        symptoms_step == current_step = "current_symptoms"
        greeting_step == /\ ~symptoms_step
                         /\ is_onboarding_complete
                         /\ current_step \in {"start", "none", "completed"}
        age_step == ~symptoms_step /\ ~greeting_step /\ current_step = "age"
        gender_match == message.kind \in {"other", "gender", "custom_date", "symptom_date",
                                          "booking"}
        has_symptoms == message.kind \in {"symptom", "symptom_date"}
        has_date_and_time == message.kind \in {"custom_date", "symptom_date"}
        answer(intent, key) ==
            [intent |-> intent,
             entities |-> IF key = "none" THEN required_entities
                          ELSE (key :> message) @@ required_entities]
    IN  IF current_step = "awaiting_custom_date"
        THEN answer("request_custom_date", "date_preference")
        ELSE IF message.kind = "other"
        THEN answer("request_custom_date", "custom_request")
        ELSE IF number_value /\ symptoms_step /\ one_of(1, 5)
        THEN answer("select_slot", "slot_number")
        ELSE IF number_value /\ greeting_step /\ one_of(1, 4)
        THEN answer("profile_choice", "profile_choice")
        ELSE IF number_value /\ age_step /\ message.n \in MinAge..MaxAge
        THEN answer("provide_age", "age")
        ELSE IF message.kind = "email"
        THEN answer("provide_email", "email")
        ELSE IF gender_match /\ current_step = "gender"
        THEN answer("provide_gender", "gender")
        ELSE IF has_date_and_time
        THEN [intent |-> "request_custom_date",
              entities |-> [required_entities EXCEPT !["date_preference"] = message,
                                                     !["time_preference"] = message]]
        ELSE IF current_step \in {"allergies", "update_allergies"}
        THEN answer("provide_allergies", "allergies")
        ELSE IF symptoms_step /\ has_symptoms /\ ~number_value
        THEN answer("provide_current_symptoms", "current_symptoms")
        ELSE IF message.kind = "greeting"
        THEN answer("greeting", "none")
        ELSE IF message.kind = "booking"
        THEN answer("start_onboarding", "none")
        ELSE answer("unknown", "none")

(* A webhook without the gate of main.py 102: every request is routed by   *)
(* the classifier's answer                                                 *)
routed_ungated(db, f) ==
    LET g == Note(f, "step", f.step)
    IN  {dispatch(db, Note([g EXCEPT !.intent = i], "intent", i)) : i \in Intents}

(* main.py 97-99 and 147: with the step read, the branch of the patient;   *)
(* for an onboarded patient analyze_message may answer any intent          *)
routed(db, f) ==
    LET g == Note(f, "step", f.step)
        \* analyze_message(Body, current_step=current_step) (148): the
        \* classifier may answer with any intent; when it is unavailable the
        \* answer is the fallback's, with is_onboarding_complete left False
        analysis == IF lim.classifier THEN Intents
                    ELSE {get_fallback_response(g.body, g.step, FALSE).intent}
    IN  IF ~g.completed THEN {onboarding(g)}
        ELSE {dispatch(db, Note([g EXCEPT !.intent = i], "intent", i)) : i \in analysis}

(* find_or_create_patient (supabase_service.py 63-107) for a known phone   *)
(* number, then get_booking_context (main.py 38-45)                        *)
find_or_create_patient(db, f, fl) ==
    {Out(db, Note([f EXCEPT !.pc = "get_status", !.attempt = 0,
                            !.ctx = db.pats[f.patient].notes,
                            !.completed = db.pats[f.patient].onboarding_completed],
                  "completed", db.pats[f.patient].onboarding_completed), FALSE)}
    \cup
    (IF fl
     THEN {Out(db, IF f.attempt = MAX_RETRIES - 1
                   THEN Finished(f, "system_difficulties")
                   ELSE [f EXCEPT !.attempt = @ + 1], TRUE)}
     ELSE {})

(* get_patient_onboarding_status (supabase_service.py 963-996), main.py    *)
(* 97-99, then analyze_message: the classifier may answer any intent       *)
get_patient_onboarding_status(db, f, fl) ==
    LET read == [f EXCEPT !.step = db.pats[f.patient].onboarding_step, !.attempt = 0]
        none == [f EXCEPT !.step = "start", !.attempt = 0]
    IN  {Out(db, g, FALSE) : g \in routed(db, read)}
        \cup
        (IF fl
         THEN (IF f.attempt = MAX_RETRIES - 1
               THEN {Out(db, g, TRUE) : g \in routed(db, none)}
               ELSE {Out(db, [f EXCEPT !.attempt = @ + 1], TRUE)})
              \cup
              {Out(db, g, TRUE) : g \in routed(db, none)}
         ELSE {})

NextWrite(f) ==
    IF Len(f.todo) = 1 THEN [f EXCEPT !.pc = "done", !.todo = <<>>, !.attempt = 0]
    ELSE [f EXCEPT !.todo = Tail(@), !.attempt = 0]

(* update_patient_onboarding_step (supabase_service.py 636-670); its       *)
(* result is never looked at by the webhook                                *)
update_patient_onboarding_step(db, f, fl) ==
    {Out([db EXCEPT !.pats[f.patient].onboarding_step = Head(f.todo).step],
         NextWrite(f), FALSE)}
    \cup
    (IF fl
     THEN {Out(db, IF f.attempt = MAX_RETRIES - 1 THEN NextWrite(f)
                   ELSE [f EXCEPT !.attempt = @ + 1], TRUE),
           Out(db, NextWrite(f), TRUE)}
     ELSE {})

(* store_booking_context (main.py 34-36) through update_profile_field      *)
(* (supabase_service.py 746-806), field 'notes'; result not looked at      *)
store_booking_context(db, f, fl) ==
    {Out([db EXCEPT !.pats[f.patient].notes = Head(f.todo).ctx], NextWrite(f), FALSE)}
    \cup
    (IF fl THEN {Out(db, NextWrite(f), TRUE)} ELSE {})

(* update_profile_field without the allow-list of 766-770 and the age     *)
(* validation of 781-790                                                   *)
update_profile_field_unvalidated(db, f, fl) ==
    LET w == Head(f.todo)
        p == f.patient
        written ==
            CASE w.field = "full_name" -> [db EXCEPT !.pats[p].full_name = "given"]
              [] w.field = "age" /\ w.value.kind = "num" ->
                     [db EXCEPT !.pats[p].age = w.value.n]
              [] w.field = "gender" -> [db EXCEPT !.pats[p].gender = TRUE]
              [] w.field = "email" -> [db EXCEPT !.pats[p].email = TRUE]
              [] OTHER -> db
    IN  {Out(written, NextWrite(f), FALSE)}
        \cup
        (IF fl THEN {Out(db, NextWrite(Note(f, "failed", TRUE)), TRUE)} ELSE {})

(* update_profile_field (supabase_service.py 746-806); it does not retry,  *)
(* and the webhook does not look at its result (main.py 114, 121, 130).    *)
(* A field outside allowed_fields is refused (768-770); for age,           *)
(* int(field_value) raises unless the value is an integer or its decimal   *)
(* text, and an age outside 1..120 is refused (781-790).  A value written  *)
(* to notes is the JSON text of a booking context, here the empty one.     *)
update_profile_field(db, f, fl) ==
    LET w == Head(f.todo)
        p == f.patient
        allowed == w.field \in {"email", "age", "gender", "full_name", "notes"}
        age_int == w.value.n
        bad_age == \/ w.value.kind # "num"
                   \/ ~(MinAge <= age_int /\ age_int <= MaxAge)
        written ==
            CASE w.field = "full_name" -> [db EXCEPT !.pats[p].full_name = "given"]
              [] w.field = "age" -> [db EXCEPT !.pats[p].age = age_int]
              [] w.field = "gender" -> [db EXCEPT !.pats[p].gender = TRUE]
              [] w.field = "email" -> [db EXCEPT !.pats[p].email = TRUE]
              [] w.field = "notes" -> [db EXCEPT !.pats[p].notes = EmptyCtx]
              [] OTHER -> db
    IN  (IF ~allowed \/ (w.field = "age" /\ bad_age)
         THEN {Out(db, NextWrite(Note(f, "failed", TRUE)), FALSE)}
         ELSE {Out(written, NextWrite(f), FALSE)})
        \cup
        (IF fl THEN {Out(db, NextWrite(Note(f, "failed", TRUE)), TRUE)} ELSE {})

(* update_patient_email (supabase_service.py 109-143); result not looked   *)
(* at (main.py 139)                                                        *)
update_patient_email(db, f, fl) ==
    {Out([db EXCEPT !.pats[f.patient].email = TRUE], NextWrite(f), FALSE)}
    \cup
    (IF fl
     THEN {Out(db, IF f.attempt = MAX_RETRIES - 1
                   THEN NextWrite(Note(f, "failed", TRUE))
                   ELSE [f EXCEPT !.attempt = @ + 1], TRUE),
           Out(db, NextWrite(Note(f, "failed", TRUE)), TRUE)}
     ELSE {})

(* complete_profile_update (supabase_service.py 808-842): one update sets  *)
(* both columns; result not looked at (main.py 140)                        *)
complete_profile_update(db, f, fl) ==
    {Out([db EXCEPT !.pats[f.patient].onboarding_completed = TRUE,
                    !.pats[f.patient].onboarding_step = "completed"],
         NextWrite(f), FALSE)}
    \cup
    (IF fl THEN {Out(db, NextWrite(Note(f, "failed", TRUE)), TRUE)} ELSE {})

(* create_calendar_event (gcal_service.py 74-295) as the webhook sees it    *)
(* (main.py 257-270): every exception is caught inside and becomes a       *)
(* result; only a success that carries calendar links adds the link        *)
CalendarOutcomes ==
    {"with_attendee_invitation", "without_attendee_with_email", "basic_event",
     "skipped", "error", "none"}

(* A calendar call whose failures reach the webhook as exceptions *)
create_calendar_event_raising(db, f, outcomes) ==
    {Out(db, [NextWrite(Note(f, "calendar", c))
                 EXCEPT !.reply = IF c \in {"without_attendee_with_email", "basic_event"}
                                  THEN "confirmed_with_link"
                                  ELSE IF c \in {"error", "none"} THEN "system_error"
                                  ELSE "confirmed"],
         FALSE) : c \in outcomes}

create_calendar_event(db, f, outcomes) ==
    {Out(db, [NextWrite(Note(f, "calendar", c))
                 EXCEPT !.reply = IF c \in {"without_attendee_with_email", "basic_event"}
                                  THEN "confirmed_with_link" ELSE "confirmed"],
         FALSE) : c \in outcomes}

-----------------------------------------------------------------------------
(* All outcomes of the next store call of frame f *)

Succ(db, f, fl) ==
    CASE f.pc = "find_patient" -> find_or_create_patient(db, f, fl)
      [] f.pc = "get_status" -> get_patient_onboarding_status(db, f, fl)
      [] f.pc = "upcoming" -> get_upcoming_appointments(db, f, fl)
      [] f.pc = "writes" /\ Head(f.todo).w = "step" ->
             update_patient_onboarding_step(db, f, fl)
      [] f.pc = "writes" /\ Head(f.todo).w = "ctx" -> store_booking_context(db, f, fl)
      [] f.pc = "writes" /\ Head(f.todo).w = "field" -> update_profile_field(db, f, fl)
      [] f.pc = "writes" /\ Head(f.todo).w = "email" -> update_patient_email(db, f, fl)
      [] f.pc = "writes" /\ Head(f.todo).w = "complete" ->
             complete_profile_update(db, f, fl)
      [] f.pc = "writes" /\ Head(f.todo).w = "calendar" ->
             create_calendar_event(db, f, lim.calendar)
      [] f.pc = "book_update" -> book_slot_update(db, f, fl)
      [] f.pc = "book_insert" -> book_slot_insert(db, f, fl)
      [] f.pc = "book_revert" -> book_slot_revert(db, f, fl)
      [] f.pc = "cancel_update" -> cancel_appointment_update(db, f, fl)
      [] f.pc = "cancel_release" -> cancel_appointment_release(db, f, fl)
      [] f.pc = "foc_select" -> find_or_create_select(db, f, fl)
      [] f.pc = "foc_overlap" -> find_or_create_overlap(db, f, fl)
      [] f.pc = "foc_insert" -> find_or_create_insert(db, f, fl)
      [] OTHER -> {}

(* A request handled alone, without store faults: the stores it can end in *)
RECURSIVE RunAlone(_, _)
RunAlone(db, f) ==
    IF f.pc = "done" THEN {db}
    ELSE UNION {RunAlone(o.db, o.f) : o \in {x \in Succ(db, f, FALSE) : ~x.fault}}

NewRequest(p, b) ==
    [IdleFrame EXCEPT !.pc = "find_patient", !.top = "webhook", !.op = "webhook",
                      !.patient = p, !.body = b]

(* Two messages handled one after the other, in either order *)
SerialOutcomes(db, r1, r2) ==
    UNION {RunAlone(d, NewRequest(r2.patient, r2.body))
              : d \in RunAlone(db, NewRequest(r1.patient, r1.body))}
    \cup
    UNION {RunAlone(d, NewRequest(r1.patient, r1.body))
              : d \in RunAlone(db, NewRequest(r2.patient, r2.body))}

-----------------------------------------------------------------------------
(* Observations kept beside the frames (they steer nothing):               *)
(*   faulted    a store fault was injected into the call                   *)
(*   pre        on entry: book - the slot was free; cancel - the           *)
(*              appointment was already cancelled; find_or_create - no row *)
(*              had the start time                                         *)
(*   reserved   the call's conditional update took the slot                *)
(*   inserted   the call inserted a row                                    *)
(*   held       the call's slot was booked at the moment it returned       *)
(*   disturbed  the slot was released while the book call was in flight    *)
(*   rivals     the handlers with a book call on the same slot in flight   *)
(*              at some moment of this book call                           *)

InFlightBook(f) == f.top = "direct" /\ f.op = "book" /\ f.pc \in {"book_update", "book_insert", "book_revert"}

Quiescent == \A h \in Handlers : req[h].pc \in {"idle", "done"}

HistOff == [on |-> FALSE, ok |-> FALSE, base |-> EmptyDB(<<>>), reqs |-> <<>>]
HistLost == [on |-> TRUE, ok |-> FALSE, base |-> EmptyDB(<<>>), reqs |-> <<>>]

SetFrame(h, nf, newdb) ==
    LET entering == nf.pc = "book_update" /\ nf.top = "direct"
        g == IF entering
             THEN [nf EXCEPT !.rivals = {k \in Handlers \ {h} :
                                            InFlightBook(req[k]) /\ req[k].slot = nf.slot}]
             ELSE nf
        released(s) == /\ s \in DOMAIN slots
                       /\ slots[s].is_booked
                       /\ ~newdb.slots[s].is_booked
        other(k) ==
            LET a == IF entering /\ InFlightBook(req[k]) /\ req[k].slot = nf.slot
                     THEN [req[k] EXCEPT !.rivals = @ \cup {h}] ELSE req[k]
            IN  IF InFlightBook(a) /\ released(a.slot)
                THEN [a EXCEPT !.disturbed = TRUE] ELSE a
    IN  [k \in Handlers |-> IF k = h THEN g ELSE other(k)]

Apply(h, o) ==
    /\ slots' = o.db.slots
    /\ appointments' = o.db.appts
    /\ patients' = o.db.pats
    /\ req' = SetFrame(h, IF o.fault THEN Note(o.f, "faulted", TRUE) ELSE o.f, o.db)
    /\ faults' = IF o.fault THEN faults - 1 ELSE faults
    /\ hist' = IF o.fault /\ hist.on THEN HistLost ELSE hist
    /\ lim' = lim

StoreStep(h, pcs) ==
    /\ req[h].pc \in pcs
    /\ \E o \in Succ(DB, req[h], faults > 0) : Apply(h, o)

-----------------------------------------------------------------------------
(* Actions: one per record-store call *)

GetPatientOnboardingStatus(h) ==
    /\ h \in lim.handlers
    /\ StoreStep(h, {"get_status"})

GetUpcomingAppointments(h) ==
    /\ h \in lim.handlers
    /\ StoreStep(h, {"upcoming"})

UpdatePatientOnboardingStep(h) ==
    /\ h \in lim.handlers
    /\ req[h].pc = "writes" /\ Head(req[h].todo).w = "step"
    /\ StoreStep(h, {"writes"})

StoreBookingContext(h) ==
    /\ h \in lim.handlers
    /\ req[h].pc = "writes" /\ Head(req[h].todo).w = "ctx"
    /\ StoreStep(h, {"writes"})

UpdateProfileField(h) ==
    /\ h \in lim.handlers
    /\ req[h].pc = "writes" /\ Head(req[h].todo).w = "field"
    /\ StoreStep(h, {"writes"})

UpdatePatientEmail(h) ==
    /\ h \in lim.handlers
    /\ req[h].pc = "writes" /\ Head(req[h].todo).w = "email"
    /\ StoreStep(h, {"writes"})

CompleteProfileUpdate(h) ==
    /\ h \in lim.handlers
    /\ req[h].pc = "writes" /\ Head(req[h].todo).w = "complete"
    /\ StoreStep(h, {"writes"})

CreateCalendarEvent(h) ==
    /\ h \in lim.handlers
    /\ req[h].pc = "writes" /\ Head(req[h].todo).w = "calendar"
    /\ StoreStep(h, {"writes"})

BookSlotUpdate(h) ==
    /\ h \in lim.handlers
    /\ StoreStep(h, {"book_update"})

BookSlotInsert(h) ==
    /\ h \in lim.handlers
    /\ Len(appointments) < lim.appts
    /\ StoreStep(h, {"book_insert"})

BookSlotRevert(h) ==
    /\ h \in lim.handlers
    /\ StoreStep(h, {"book_revert"})

CancelAppointmentUpdate(h) ==
    /\ h \in lim.handlers
    /\ StoreStep(h, {"cancel_update"})

CancelAppointmentRelease(h) ==
    /\ h \in lim.handlers
    /\ StoreStep(h, {"cancel_release"})

FindOrCreateSelect(h) ==
    /\ h \in lim.handlers
    /\ StoreStep(h, {"foc_select"})

FindOrCreateOverlap(h) ==
    /\ h \in lim.handlers
    /\ StoreStep(h, {"foc_overlap"})

FindOrCreateInsert(h) ==
    /\ h \in lim.handlers
    /\ Len(slots) < lim.slots
    /\ StoreStep(h, {"foc_insert"})

Observe(f, db) ==
    IF lim.observe
    THEN [f EXCEPT !.obs = [NoObs EXCEPT !.on = TRUE, !.before = db, !.body = f.body]]
    ELSE f

(* An inbound message arrives at the webhook, which looks the patient up   *)
(* (find_or_create_patient, the first store call of the request)           *)
StartRequest(h) ==
    /\ h \in lim.handlers
    /\ req[h].pc = "idle"
    /\ \E p \in lim.patients, b \in lim.bodies :
       \E o \in Succ(DB, Observe(NewRequest(p, b), DB), faults > 0) :
          /\ req' = SetFrame(h, IF o.fault THEN Note(o.f, "faulted", TRUE) ELSE o.f, DB)
          /\ faults' = IF o.fault THEN faults - 1 ELSE faults
          /\ hist' = IF ~hist.on THEN hist
                     ELSE IF o.fault THEN HistLost
                     ELSE IF Quiescent
                     THEN [on |-> TRUE, ok |-> TRUE, base |-> DB,
                           reqs |-> <<[patient |-> p, body |-> b]>>]
                     ELSE IF hist.ok /\ Len(hist.reqs) = 1 /\ hist.reqs[1].patient = p
                     THEN [hist EXCEPT !.reqs = Append(@, [patient |-> p, body |-> b])]
                     ELSE HistLost
    /\ UNCHANGED <<slots, appointments, patients, lim>>

(* The webhook returns its reply *)
Finish(h) ==
    /\ h \in lim.handlers
    /\ req[h].pc = "done" /\ req[h].top = "webhook"
    /\ req' = SetFrame(h, IdleFrame, DB)
    /\ UNCHANGED <<slots, appointments, patients, faults, hist, lim>>

(* Direct calls of the ledger and the inventory *)
DirectFrame(p) == [IdleFrame EXCEPT !.top = "direct", !.patient = p]

CallBookSlot(h) ==
    /\ h \in lim.handlers
    /\ req[h].pc \in {"idle", "done"}
    /\ \E slot_id \in DOMAIN slots, p \in lim.patients :
          req' = SetFrame(h, call_book_slot(DB, DirectFrame(p), slot_id), DB)
    /\ UNCHANGED <<slots, appointments, patients, faults, hist, lim>>

CallCancelAppointment(h) ==
    /\ h \in lim.handlers
    /\ req[h].pc \in {"idle", "done"}
    /\ \E a \in DOMAIN appointments :
          req' = SetFrame(h, call_cancel_appointment(DB, DirectFrame(0), a,
                                                    appointments[a].availability_id), DB)
    /\ UNCHANGED <<slots, appointments, patients, faults, hist, lim>>

CallFindOrCreate(h) ==
    /\ h \in lim.handlers
    /\ req[h].pc \in {"idle", "done"}
    /\ \E t \in lim.starts :
          req' = SetFrame(h, call_find_or_create_availability_slot(DB, DirectFrame(0), t), DB)
    /\ UNCHANGED <<slots, appointments, patients, faults, hist, lim>>

(* The round trip of one caller: find_or_create(T), book, cancel that      *)
(* appointment with its slot id, find_or_create(T), book; every store call *)
(* of the round trip succeeds                                              *)
RoundTripFind(h) ==
    /\ h \in lim.handlers
    /\ req[h].pc \in {"idle", "done"}
    /\ \E t \in lim.starts :
          req' = SetFrame(h, [call_find_or_create_availability_slot(DB, DirectFrame(0), t)
                                 EXCEPT !.rt = [NoRoundTrip EXCEPT !.phase = 1,
                                                                   !.start = t]], DB)
    /\ faults' = 0
    /\ UNCHANGED <<slots, appointments, patients, hist, lim>>

RoundTripBook(h) ==
    /\ h \in lim.handlers
    /\ req[h].pc = "done" /\ req[h].rt.phase \in {1, 4}
    /\ req[h].result # NoneV
    /\ \E p \in lim.patients :
          req' = SetFrame(h, [call_book_slot(DB, DirectFrame(p), req[h].result)
                                 EXCEPT !.rt = [req[h].rt EXCEPT
                                                   !.phase = @ + 1,
                                                   !.slot = IF @ = NoneV
                                                            THEN req[h].result ELSE @]],
                          DB)
    /\ UNCHANGED <<slots, appointments, patients, faults, hist, lim>>

RoundTripCancel(h) ==
    /\ h \in lim.handlers
    /\ req[h].pc = "done" /\ req[h].rt.phase = 2
    /\ req[h].result # NoneV
    /\ req' = SetFrame(h, [call_cancel_appointment(DB, DirectFrame(0), req[h].result,
                                                   req[h].rt.slot)
                              EXCEPT !.rt = [req[h].rt EXCEPT !.phase = 3,
                                                              !.first = req[h].result]],
                       DB)
    /\ UNCHANGED <<slots, appointments, patients, faults, hist, lim>>

RoundTripFindAgain(h) ==
    /\ h \in lim.handlers
    /\ req[h].pc = "done" /\ req[h].rt.phase = 3
    /\ req' = SetFrame(h, [call_find_or_create_availability_slot(DB, DirectFrame(0),
                                                                 req[h].rt.start)
                              EXCEPT !.rt = [req[h].rt EXCEPT !.phase = 4]], DB)
    /\ UNCHANGED <<slots, appointments, patients, faults, hist, lim>>

-----------------------------------------------------------------------------
(* The limits of a specification: how many handlers run at once, which   *)
(* patients write, which messages arrive, how many rows the tables take   *)
(* and how many store calls fail                                          *)
Limits(handlers, pats, bodies, starts, nslots, nappts, nfaults) ==
    [handlers |-> handlers, patients |-> pats, bodies |-> bodies,
     starts |-> starts, slots |-> nslots, appts |-> nappts, faults |-> nfaults,
     observe |-> FALSE, calendar |-> {"skipped"}, classifier |-> TRUE]

(* The same limits with every webhook request observed and with the given  *)
(* outcomes of create_calendar_event                                       *)
Observed(l, outcomes) == [l EXCEPT !.observe = TRUE, !.calendar = outcomes]

InitWith(l, h) ==
    /\ slots = <<>>
    /\ appointments = <<>>
    /\ patients = [p \in l.patients |-> NewPatient("completed", TRUE)]
    /\ req = [k \in Handlers |-> IdleFrame]
    /\ faults = l.faults
    /\ hist = h
    /\ lim = l

(* The ledger and the inventory under concurrent direct calls *)
DirectStarts == {astimezone_utc(start_time_local(1, 1, 10, 15))}

Init ==
    InitWith(Limits(Handlers, Patients, {}, DirectStarts, MaxSlots, MaxAppts, MaxFaults), HistOff)

Next ==
    \/ \E h \in Handlers : CallBookSlot(h)
    \/ \E h \in Handlers : CallCancelAppointment(h)
    \/ \E h \in Handlers : CallFindOrCreate(h)
    \/ \E h \in Handlers : BookSlotUpdate(h)
    \/ \E h \in Handlers : BookSlotInsert(h)
    \/ \E h \in Handlers : BookSlotRevert(h)
    \/ \E h \in Handlers : CancelAppointmentUpdate(h)
    \/ \E h \in Handlers : CancelAppointmentRelease(h)
    \/ \E h \in Handlers : FindOrCreateSelect(h)
    \/ \E h \in Handlers : FindOrCreateOverlap(h)
    \/ \E h \in Handlers : FindOrCreateInsert(h)

Spec == Init /\ [][Next]_vars

(* The webhook under concurrent deliveries *)
CoreBodies == {NumBody(1), TimeBody(10, 15), TimeBody(10, 30)}

InitWebhook ==
    InitWith(Limits(Handlers, {1}, CoreBodies, {}, WebhookMaxSlots, WebhookMaxAppts, 0),
             HistOff)

NextWebhook ==
    \/ \E h \in Handlers : StartRequest(h)
    \/ \E h \in Handlers : GetPatientOnboardingStatus(h)
    \/ \E h \in Handlers : GetUpcomingAppointments(h)
    \/ \E h \in Handlers : UpdatePatientOnboardingStep(h)
    \/ \E h \in Handlers : StoreBookingContext(h)
    \/ \E h \in Handlers : CancelAppointmentUpdate(h)
    \/ \E h \in Handlers : CancelAppointmentRelease(h)
    \/ \E h \in Handlers : FindOrCreateSelect(h)
    \/ \E h \in Handlers : FindOrCreateOverlap(h)
    \/ \E h \in Handlers : FindOrCreateInsert(h)
    \/ \E h \in Handlers : BookSlotUpdate(h)
    \/ \E h \in Handlers : BookSlotInsert(h)
    \/ \E h \in Handlers : CreateCalendarEvent(h)
    \/ \E h \in Handlers : Finish(h)

SpecWebhook == InitWebhook /\ [][NextWebhook]_vars

(* The webhook under duplicate deliveries: one patient, one start time *)
RedeliveryBodies == {NumBody(1), TimeBody(10, 15)}

InitRedelivery ==
    InitWith(Limits(Handlers, {1}, RedeliveryBodies, {},
                    RedeliveryMaxSlots, RedeliveryMaxAppts, 0), HistOff)

SpecRedelivery == InitRedelivery /\ [][NextWebhook]_vars

(* Two messages of one patient in flight together, compared with the two   *)
(* handled one after the other                                             *)
InitSerial ==
    InitWith(Limits(Handlers, {1}, RedeliveryBodies, {},
                    SerialMaxSlots, SerialMaxAppts, 0), HistLost)

SpecSerial == InitSerial /\ [][NextWebhook]_vars

(* One caller whose calls follow one another, booking for one patient *)
SingleCaller == {1}

RoundTripStarts ==
    {astimezone_utc(start_time_local(1, 1, 10, 15)),
     astimezone_utc(start_time_local(1, 1, 10, 30))}

InitRoundTrip ==
    InitWith(Limits(SingleCaller, {1}, {}, RoundTripStarts,
                    RoundTripMaxSlots, RoundTripMaxAppts, MaxFaults), HistOff)

NextRoundTrip ==
    \/ Next
    \/ \E h \in Handlers : RoundTripFind(h)
    \/ \E h \in Handlers : RoundTripBook(h)
    \/ \E h \in Handlers : RoundTripCancel(h)
    \/ \E h \in Handlers : RoundTripFindAgain(h)

SpecRoundTrip == InitRoundTrip /\ [][NextRoundTrip]_vars

(* One new patient whose messages are handled one after the other, from    *)
(* the first message on; a store call may fail                             *)
FirstStep == "start"

OnboardingBodies ==
    {TextBody, KindBody("name"), KindBody("sex"), KindBody("email"),
     KindBody("digit"),
     NumBody(MinAge - 1), NumBody(MaxAge), NumBody(MaxAge + 1)}

InitOnboarding ==
    /\ slots = <<>>
    /\ appointments = <<>>
    /\ patients = [p \in {1} |-> NewPatient(FirstStep, FALSE)]
    /\ req = [k \in Handlers |-> IdleFrame]
    /\ faults = OnboardingMaxFaults
    /\ hist = HistOff
    /\ lim = Observed(Limits(SingleCaller, {1}, OnboardingBodies, {}, 0, 0,
                             OnboardingMaxFaults), {"skipped"})

NextOnboarding ==
    \/ \E h \in Handlers : StartRequest(h)
    \/ \E h \in Handlers : GetPatientOnboardingStatus(h)
    \/ \E h \in Handlers : GetUpcomingAppointments(h)
    \/ \E h \in Handlers : UpdatePatientOnboardingStep(h)
    \/ \E h \in Handlers : StoreBookingContext(h)
    \/ \E h \in Handlers : UpdateProfileField(h)
    \/ \E h \in Handlers : UpdatePatientEmail(h)
    \/ \E h \in Handlers : CompleteProfileUpdate(h)
    \/ \E h \in Handlers : Finish(h)

SpecOnboarding == InitOnboarding /\ [][NextOnboarding]_vars

(* One new patient whose messages may be in flight together *)
RaceBodies ==
    {TextBody, KindBody("name"), NumBody(MaxAge), KindBody("sex"), KindBody("email")}

InitOnboardingRace ==
    /\ slots = <<>>
    /\ appointments = <<>>
    /\ patients = [p \in {1} |-> NewPatient(FirstStep, FALSE)]
    /\ req = [k \in Handlers |-> IdleFrame]
    /\ faults = 0
    /\ hist = HistOff
    /\ lim = Limits(Handlers, {1}, RaceBodies, {}, 0, 0, 0)

SpecOnboardingRace == InitOnboardingRace /\ [][NextOnboarding]_vars

(* One onboarded patient whose messages are handled one after the other,   *)
(* with no store failure; create_calendar_event may end in any way.        *)
(* The texts: list choices 1 and 2, the number 31 (no list is that long,   *)
(* and the second month has no such day), a digit-like text, another text, *)
(* a time within hours, one after closing and one before the clock's time  *)
FlowBodies ==
    {NumBody(1), NumBody(2), NumBody(MaxDay), KindBody("digit"), TextBody,
     TimeBody(10, 15), TimeBody(CloseHour + 1, 0), TimeBody(OpenHour, 0)}

InitFlow ==
    InitWith(Observed(Limits(SingleCaller, {1}, FlowBodies, {},
                             FlowMaxSlots, FlowMaxAppts, 0),
                      CalendarOutcomes), HistOff)

SpecFlow == InitFlow /\ [][NextWebhook]_vars

(* The same patient when a store call may fail *)
InitFlowFaults ==
    InitWith(Observed(Limits(SingleCaller, {1}, RedeliveryBodies, {},
                             FlowFaultsMaxSlots, FlowFaultsMaxAppts, FlowMaxFaults),
                      CalendarOutcomes), HistOff)

NextFlowFaults ==
    \/ NextWebhook
    \/ \E h \in Handlers : BookSlotRevert(h)

SpecFlowFaults == InitFlowFaults /\ [][NextFlowFaults]_vars

-----------------------------------------------------------------------------
(* The intent classifier adapter (src/services/gemini_service.py)          *)

(* analyze_message without the handler at 150-155: what the call or line   *)
(* 137 raises leaves the function                                          *)
analyze_message_unguarded(f, outcome) ==
    IF outcome.kind \in {"raise", "json_null"}
    THEN [f EXCEPT !.pc = "raised", !.attempt = @ + 1]
    ELSE IF outcome.kind = "unavailable" \/ f.attempt = max_retries - 1
    THEN [f EXCEPT !.pc = "done", !.attempt = IF outcome.kind = "unavailable" THEN @ ELSE @ + 1,
                   !.result = get_fallback_response(f.body, f.step, f.completed)]
    ELSE [f EXCEPT !.attempt = @ + 1]

(* One pass of the loop of analyze_message (85-155) in the frame f, given  *)
(* what the classifier did:                                                *)
(*   "unavailable"  get_gemini_model() returned None or raised (53-57,     *)
(*                  160-162): no call is made                              *)
(*   "raise"        generate_content_async or response.text raised         *)
(*   "empty"        an empty response, or one with no braces (100, 110)    *)
(*   "nonjson"      json.loads raised JSONDecodeError (142)                *)
(*   "json"         json.loads returned the mapping outcome.result, which  *)
(*                  is rejected unless it has both keys (121)              *)
(*   "json_null"    json.loads returned a mapping with both keys whose     *)
(*                  entities are null: line 137 raises TypeError           *)
analyze_message(f, outcome) ==
    LET fallback == get_fallback_response(f.body, f.step, f.completed)
        return(r) == [f EXCEPT !.pc = "done", !.result = r,
                               !.attempt = IF outcome.kind = "unavailable" THEN @ ELSE @ + 1]
        continue == IF f.attempt = max_retries - 1 THEN return(fallback)
                    ELSE [f EXCEPT !.attempt = @ + 1]
        result == outcome.result
        entities == result["entities"]
        raises == outcome.kind \in {"raise", "json_null"}
    IN  IF outcome.kind = "unavailable" THEN return(fallback)
        ELSE IF raises THEN continue
        ELSE IF outcome.kind \in {"empty", "nonjson"} THEN continue
        ELSE IF ~({"intent", "entities"} \subseteq DOMAIN result) THEN continue
        ELSE return([result EXCEPT !["entities"] =
                        [k \in DOMAIN required_entities \cup DOMAIN entities |->
                            IF k \in DOMAIN entities THEN entities[k]
                            ELSE required_entities[k]]])

(* await gemini_model.generate_content_async(...) (87): the classifier     *)
(* answers in any of these ways; a JSON answer may lack either key, and    *)
(* its entities may hold none of the entity keys or some of them           *)
GenerateContent(h) ==
    /\ h \in lim.handlers
    /\ req[h].pc = "analyze"
    /\ \E outcome \in
            [kind : {"unavailable", "raise", "empty", "nonjson", "json_null"},
             result : {<<>>}]
            \cup [kind : {"json"},
                  result : {<<>>,
                            [intent |-> "select_choice"],
                            [entities |-> <<>>],
                            [intent |-> "greeting", entities |-> <<>>],
                            [intent |-> "select_choice",
                             entities |-> [slot_number |-> NumBody(1)]]}] :
          /\ outcome.kind = "unavailable" => req[h].attempt = 0
          /\ req' = [req EXCEPT ![h] = analyze_message(req[h], outcome)]
    /\ UNCHANGED <<slots, appointments, patients, faults, hist, lim>>

(* analyze_message called with any of these messages, in any of these      *)
(* steps, for a patient who has or has not completed onboarding            *)
InitClassifier ==
    /\ slots = <<>>
    /\ appointments = <<>>
    /\ patients = <<>>
    /\ \E message \in {NumBody(n) : n \in {0, 1, 4, 5, 6, MaxAge, MaxAge + 1}}
                      \cup {[KindBody("padded") EXCEPT !.n = 1], KindBody("blank"),
                            KindBody("other"), KindBody("email"), KindBody("symptom"),
                            KindBody("gender"), KindBody("custom_date"),
                            KindBody("symptom_date"), KindBody("greeting"),
                            KindBody("booking"), TextBody},
          current_step \in {"none", "start", "completed", "age", "gender",
                            "current_symptoms", "allergies", "awaiting_custom_date",
                            "awaiting_time_selection"},
          is_onboarding_complete \in BOOLEAN :
            req = [k \in Handlers |->
                     IF k = 1
                     THEN [IdleFrame EXCEPT !.top = "classify", !.pc = "analyze",
                                            !.body = message, !.step = current_step,
                                            !.completed = is_onboarding_complete]
                     ELSE IdleFrame]
    /\ faults = 0
    /\ hist = HistOff
    /\ lim = Limits(SingleCaller, {}, {}, {}, 0, 0, 0)

SpecClassifier == InitClassifier /\ [][\E h \in Handlers : GenerateContent(h)]_vars

-----------------------------------------------------------------------------
(* retry_with_backoff around any operation (supabase_service.py 38-55)     *)

(* delay = min(BASE_DELAY * (2 ** attempt), MAX_DELAY) (51), in seconds *)
delay(attempt) ==
    IF BASE_DELAY * (2 ^ attempt) < MAX_DELAY THEN BASE_DELAY * (2 ^ attempt)
    ELSE MAX_DELAY

(* return await func(...) (44): the operation returns a value or          *)
(* raises.  After a failure that is not the last one the loop sleeps (53); *)
(* the delays slept so far are kept in the frame's list.  The last failure *)
(* reaches the except clause of the caller, which returns its failure      *)
(* value: False (cancel_appointment, 448-450) or None                      *)
(* (find_or_create_availability_slot, 342-344), both NoneV here.           *)
Invoke(h) ==
    /\ h \in lim.handlers
    /\ req[h].pc = "invoke"
    /\ \E raised \in BOOLEAN, v \in {1, 2} :
          LET f == req[h]
              slept == IF f.attempt < MAX_RETRIES - 1
                       THEN Append(f.list, delay(f.attempt)) ELSE f.list
          IN  req' = [req EXCEPT ![h] =
                        IF raised
                        THEN [retry_with_backoff(DB, f, "invoke", NoneV)
                                  EXCEPT !.list = slept]
                        ELSE Return(DB, f, v)]
    /\ UNCHANGED <<slots, appointments, patients, faults, hist, lim>>

(* Every handler is inside one of the two functions, about to invoke its   *)
(* operation for the first time                                            *)
InitRetry ==
    /\ slots = <<>>
    /\ appointments = <<>>
    /\ patients = <<>>
    /\ req \in [Handlers -> {[IdleFrame EXCEPT !.top = "direct", !.pc = "invoke", !.op = op] :
                                op \in {"cancel", "find_or_create"}}]
    /\ faults = 0
    /\ hist = HistOff
    /\ lim = Limits(Handlers, {}, {}, {}, 0, 0, 0)

(* Every invocation returns or raises, and the event loop resumes the      *)
(* coroutine when it has or when the sleep is over                         *)
SpecRetry ==
    /\ InitRetry
    /\ [][\E h \in Handlers : Invoke(h)]_vars
    /\ \A h \in Handlers : WF_vars(Invoke(h))

-----------------------------------------------------------------------------
(* The status updates of a dermatology question (main.py 47-75, 318-330).  *)
(* The frame of the request holds its background task as well: step is the *)
(* task's position, attempt the index of the loop, list the messages sent  *)
(* and start the time left of the wait.  The request's own pc is           *)
(* "dermatology" while it awaits generate_dermatology_response; it sets    *)
(* stop_loop_event when that returns, so the event is set exactly when pc  *)
(* is no longer "dermatology".                                             *)

(* status_messages (50-55), the delays in half seconds *)
status_messages ==
    <<[message |-> "Searching...", delay |-> 3],
      [message |-> "Retrieving...", delay |-> 4],
      [message |-> "Thinking...", delay |-> 5],
      [message |-> "Analysing...", delay |-> 4]>>

(* dermatology_response = await generate_dermatology_response(Body);      *)
(* stop_loop_event.set() (325-329).  The response is a text, an answer or  *)
(* one of the function's own excuses, or it is empty (the answer held      *)
(* nothing but a citation, gemini_service.py 528-532); the frame keeps it  *)
(* in reply.                                                               *)
GenerateDermatologyResponse(h) ==
    /\ h \in lim.handlers
    /\ req[h].pc = "dermatology"
    /\ \E dermatology_response \in {"answer", "empty"} :
          req' = [req EXCEPT ![h].pc = "await_status", ![h].reply = dermatology_response]
    /\ UNCHANGED <<slots, appointments, patients, faults, hist, lim>>

(* The head of the loop without the test of the event at 59 *)
StatusSend_unchecked(h) ==
    /\ h \in lim.handlers
    /\ req[h].step = "status_send"
    /\ LET f == req[h]
           next == status_messages[f.attempt + 1]
       IN  req' = [req EXCEPT ![h] =
                     [f EXCEPT !.step = "status_wait",
                               !.list = Append(@, next.message),
                               !.start = next.delay]]
    /\ UNCHANGED <<slots, appointments, patients, faults, hist, lim>>

(* The head of the loop (57-65): leave it if the event is set, otherwise   *)
(* send the next message and start the wait; send_whatsapp_message makes   *)
(* its one blocking call without yielding to the event loop                *)
StatusSend(h) ==
    /\ h \in lim.handlers
    /\ req[h].step = "status_send"
    /\ LET f == req[h]
           next == status_messages[f.attempt + 1]
       IN  req' = [req EXCEPT ![h] =
                     IF f.pc # "dermatology"
                     THEN [f EXCEPT !.step = "status_done"]
                     ELSE [f EXCEPT !.step = "status_wait",
                                    !.list = Append(@, next.message),
                                    !.start = next.delay]]
    /\ UNCHANGED <<slots, appointments, patients, faults, hist, lim>>

(* await asyncio.wait_for(stop_event.wait(), timeout=delay) (67-73): while *)
(* the event is not set time passes; once it is set the wait returns and   *)
(* the loop is left (69); when the time is up the wait raises TimeoutError *)
(* and the loop goes on with the next message (70-73), which it may do     *)
(* even though the event was set in that same instant                      *)
WaitFor(h) ==
    /\ h \in lim.handlers
    /\ req[h].step = "status_wait"
    /\ LET f == req[h]
           is_set == f.pc # "dermatology"
       IN  \/ /\ ~is_set /\ f.start > 0
              /\ req' = [req EXCEPT ![h].start = @ - 1]
           \/ /\ is_set
              /\ req' = [req EXCEPT ![h].step = "status_done"]
           \/ /\ f.start = 0
              /\ req' = [req EXCEPT ![h].attempt = @ + 1,
                                    ![h].step = IF f.attempt + 1 = Len(status_messages)
                                                THEN "status_done" ELSE "status_send"]
    /\ UNCHANGED <<slots, appointments, patients, faults, hist, lim>>

(* Every handler has a dermatology question and has just created its      *)
(* status task (318-321)                                                   *)
InitStatus ==
    /\ slots = <<>>
    /\ appointments = <<>>
    /\ patients = <<>>
    /\ req = [k \in Handlers |->
                [IdleFrame EXCEPT !.top = "status", !.pc = "dermatology",
                                  !.step = "status_send"]]
    /\ faults = 0
    /\ hist = HistOff
    /\ lim = Limits(Handlers, {}, {}, {}, 0, 0, 0)

(* The event loop resumes the task when it can run and the clock advances; *)
(* nothing is assumed about when, or whether, the answer arrives           *)
SpecStatus ==
    /\ InitStatus
    /\ [][\/ \E h \in Handlers : GenerateDermatologyResponse(h)
          \/ \E h \in Handlers : StatusSend(h)
          \/ \E h \in Handlers : WaitFor(h)]_vars
    /\ \A h \in Handlers : WF_vars(StatusSend(h)) /\ WF_vars(WaitFor(h))

(* "Drafting..." sent at once after the answer has arrived, without       *)
(* await status_task                                                       *)
DeliverDrafting_without_await(h) ==
    /\ h \in lim.handlers
    /\ req[h].pc = "await_status"
    /\ req' = [req EXCEPT ![h].pc = "sleep",
                          ![h].list = Append(@, "Drafting...")]
    /\ UNCHANGED <<slots, appointments, patients, faults, hist, lim>>

(* await status_task; await send_whatsapp_message(phone_number,            *)
(* "Drafting..."); await asyncio.sleep(1.5) (330-334): the request goes on *)
(* when the task has returned, sends the text and starts its pause.  The   *)
(* messages of the request and of its task go to one phone number, so      *)
(* list holds both in the order of the calls of send_whatsapp_message.     *)
DeliverDrafting(h) ==
    /\ h \in lim.handlers
    /\ req[h].pc = "await_status"
    /\ req[h].step = "status_done"
    /\ req' = [req EXCEPT ![h].pc = "sleep",
                          ![h].list = Append(@, "Drafting...")]
    /\ UNCHANGED <<slots, appointments, patients, faults, hist, lim>>

(* After the pause (336-341): the answer, or the apology when the answer   *)
(* is empty, in one call of send_whatsapp_message; then the empty reply    *)
(* is returned                                                             *)
DeliverAnswer(h) ==
    /\ h \in lim.handlers
    /\ req[h].pc = "sleep"
    /\ req' = [req EXCEPT ![h].pc = "done",
                          ![h].list = Append(@, IF req[h].reply = "empty"
                                                THEN "couldnt_process"
                                                ELSE req[h].reply)]
    /\ UNCHANGED <<slots, appointments, patients, faults, hist, lim>>

(* The whole path of a dermatology question.  generate_dermatology_response *)
(* returns in the end: its request has a connect and a read timeout and    *)
(* every exception is answered with a text (gemini_service.py 507-543).    *)
SpecMedicalQuery ==
    /\ InitStatus
    /\ [][\/ \E h \in Handlers : GenerateDermatologyResponse(h)
          \/ \E h \in Handlers : StatusSend(h)
          \/ \E h \in Handlers : WaitFor(h)
          \/ \E h \in Handlers : DeliverDrafting(h)
          \/ \E h \in Handlers : DeliverAnswer(h)]_vars
    /\ \A h \in Handlers :
          /\ WF_vars(GenerateDermatologyResponse(h))
          /\ WF_vars(StatusSend(h)) /\ WF_vars(WaitFor(h))
          /\ WF_vars(DeliverDrafting(h)) /\ WF_vars(DeliverAnswer(h))

-----------------------------------------------------------------------------
(* find_or_create_patient on a patients table that starts empty            *)
(* (supabase_service.py 63-107).  Here the table is a sequence of rows as  *)
(* the insert writes them, a row's id is its index, the frame keeps the    *)
(* phone number in start and the id of the row the number had when the     *)
(* call began in slot (pre says whether it had one).                       *)

(* The table's key: no second row with a phone number is accepted (the     *)
(* table definition script is not part of src/)                            *)
phone_number_key(rows, phone_number) ==
    \A i \in DOMAIN rows : rows[i].phone_number # phone_number

(* patient = await find_or_create_patient(phone_number) (main.py 91) *)
CallFindOrCreatePatient(h) ==
    /\ h \in lim.handlers
    /\ req[h].pc \in {"idle", "done"}
    /\ \E phone_number \in lim.patients :
          LET had == {i \in DOMAIN patients : patients[i].phone_number = phone_number}
          IN  req' = SetFrame(h, [DirectFrame(0) EXCEPT
                                     !.pc = "patient_select",
                                     !.op = "find_or_create_patient",
                                     !.start = phone_number,
                                     !.pre = had # {},
                                     !.slot = IF had = {} THEN NoneV
                                              ELSE CHOOSE i \in had : TRUE], DB)
    /\ UNCHANGED <<slots, appointments, patients, faults, hist, lim>>

(* The select without its filter on phone_number *)
FindPatientSelect_any_phone(h) ==
    /\ h \in lim.handlers
    /\ req[h].pc = "patient_select"
    /\ LET f == req[h]
           data == DOMAIN patients
       IN  \/ /\ data # {}
              /\ \E i \in data : Apply(h, Out(DB, Return(DB, f, i), FALSE))
           \/ /\ data = {}
              /\ Apply(h, Out(DB, [f EXCEPT !.pc = "patient_insert"], FALSE))
           \/ /\ faults > 0
              /\ Apply(h, Out(DB, retry_with_backoff(DB, f, "patient_select", NoneV), TRUE))

(* select('*').eq('phone_number', phone_number) (81-85): a row found is    *)
(* returned, result.data[0] being any of the rows found; the call may      *)
(* raise, and retry_with_backoff then runs the operation again             *)
FindPatientSelect(h) ==
    /\ h \in lim.handlers
    /\ req[h].pc = "patient_select"
    /\ LET f == req[h]
           data == {i \in DOMAIN patients : patients[i].phone_number = f.start}
       IN  \/ /\ data # {}
              /\ \E i \in data : Apply(h, Out(DB, Return(DB, f, i), FALSE))
           \/ /\ data = {}
              /\ Apply(h, Out(DB, [f EXCEPT !.pc = "patient_insert"], FALSE))
           \/ /\ faults > 0
              /\ Apply(h, Out(DB, retry_with_backoff(DB, f, "patient_select", NoneV), TRUE))

(* insert(patient_data) (88-101): the row is added and returned; the       *)
(* insert raises when the number has a row by now, and it may raise for    *)
(* another reason before or after the row was added                        *)
FindPatientInsert(h) ==
    /\ h \in lim.handlers
    /\ req[h].pc = "patient_insert"
    /\ LET f == req[h]
           patient_data == [phone_number |-> f.start, full_name |-> "placeholder"]
           new == [DB EXCEPT !.pats = Append(@, patient_data)]
           accepted == phone_number_key(patients, f.start)
       IN  \/ /\ accepted
              /\ Apply(h, Out(new, Return(new, Inserted(f), Len(new.pats)), FALSE))
           \/ /\ ~accepted
              /\ Apply(h, Out(DB, retry_with_backoff(DB, f, "patient_select", NoneV), FALSE))
           \/ /\ faults > 0
              /\ Apply(h, Out(DB, retry_with_backoff(DB, f, "patient_select", NoneV), TRUE))
           \/ /\ faults > 0 /\ accepted
              /\ Apply(h, Out(new, retry_with_backoff(new, Inserted(f), "patient_select",
                                                      NoneV), TRUE))

(* First messages and later ones from two phone numbers, handled at the    *)
(* same time, with store calls that may fail                               *)
InitPatients ==
    /\ slots = <<>>
    /\ appointments = <<>>
    /\ patients = <<>>
    /\ req = [k \in Handlers |-> IdleFrame]
    /\ faults = PatientsMaxFaults
    /\ hist = HistOff
    /\ lim = Limits(Handlers, Patients, {}, {}, 0, 0, PatientsMaxFaults)

SpecPatients ==
    /\ InitPatients
    /\ [][\/ \E h \in Handlers : CallFindOrCreatePatient(h)
          \/ \E h \in Handlers : FindPatientSelect(h)
          \/ \E h \in Handlers : FindPatientInsert(h)]_vars

-----------------------------------------------------------------------------
(* update_profile_field called with any field name and value               *)
(* (supabase_service.py 746-806).  The frame keeps the field name in       *)
(* intent and the value in body.                                           *)
CallUpdateProfileField(h) ==
    /\ h \in lim.handlers
    /\ req[h].pc \in {"idle", "done"}
    /\ \E p \in lim.patients, field_value \in lim.bodies,
          field_name \in {"email", "age", "gender", "full_name", "notes",
                          "phone_number", "onboarding_completed"} :
          req' = SetFrame(h, Observe([DirectFrame(p) EXCEPT
                                         !.pc = "writes",
                                         !.op = "update_profile_field",
                                         !.intent = field_name,
                                         !.body = field_value,
                                         !.todo = <<Pending("field", field_name,
                                                            field_value)>>], DB), DB)
    /\ UNCHANGED <<slots, appointments, patients, faults, hist, lim>>

(* One new patient; the values are integers around the limits of an age, a *)
(* digit-like text and another text; a store call may fail                 *)
InitProfile ==
    /\ slots = <<>>
    /\ appointments = <<>>
    /\ patients = [p \in {1} |-> NewPatient(FirstStep, FALSE)]
    /\ req = [k \in Handlers |-> IdleFrame]
    /\ faults = ProfileMaxFaults
    /\ hist = HistOff
    /\ lim = Observed(Limits(SingleCaller, {1},
                             {NumBody(MinAge - 1), NumBody(MinAge), NumBody(MaxAge),
                              NumBody(MaxAge + 1), KindBody("digit"), TextBody},
                             {}, 0, 0, ProfileMaxFaults), {"skipped"})

SpecProfile ==
    /\ InitProfile
    /\ [][\/ \E h \in Handlers : CallUpdateProfileField(h)
          \/ \E h \in Handlers : UpdateProfileField(h)]_vars

-----------------------------------------------------------------------------
(* The ledger and the inventory called by one caller, one call after the   *)
(* other.  A call of cancel_appointment may name an appointment or a slot  *)
(* that no row has; every call keeps the store it began with in obs.       *)
CallObserved(h) ==
    /\ h \in lim.handlers
    /\ req[h].pc \in {"idle", "done"}
    /\ \E appointment_id \in 1..(lim.appts + 1), slot_id \in 0..(lim.slots + 1),
          start_time \in lim.starts, p \in lim.patients :
       \E f \in {call_cancel_appointment(DB, DirectFrame(0), appointment_id, slot_id),
                 call_find_or_create_availability_slot(DB, DirectFrame(0), start_time)}
                \cup (IF slot_id \in DOMAIN slots
                      THEN {call_book_slot(DB, DirectFrame(p), slot_id)} ELSE {}) :
          req' = SetFrame(h, Observe(f, DB), DB)
    /\ UNCHANGED <<slots, appointments, patients, faults, hist, lim>>

(* Two start times half a slot apart; a store call may fail *)
SpecDirect ==
    /\ InitWith(Observed(Limits(SingleCaller, {1}, {},
                                {astimezone_utc(start_time_local(1, 1, 10, 15)),
                                 astimezone_utc(start_time_local(1, 1, 10, 30))},
                                DirectMaxSlots, DirectMaxAppts, DirectMaxFaults),
                         {"skipped"}), HistOff)
    /\ [][\/ \E h \in Handlers : CallObserved(h)
          \/ \E h \in Handlers : BookSlotUpdate(h)
          \/ \E h \in Handlers : BookSlotInsert(h)
          \/ \E h \in Handlers : BookSlotRevert(h)
          \/ \E h \in Handlers : CancelAppointmentUpdate(h)
          \/ \E h \in Handlers : CancelAppointmentRelease(h)
          \/ \E h \in Handlers : FindOrCreateSelect(h)
          \/ \E h \in Handlers : FindOrCreateOverlap(h)
          \/ \E h \in Handlers : FindOrCreateInsert(h)]_vars

-----------------------------------------------------------------------------
(* A newly created patient who answers the onboarding questions and then   *)
(* books, cancels and reschedules, with messages in flight together: a     *)
(* name, the number 1 (an age, a list choice, a day), a sex, an e-mail     *)
(* address and a time within hours                                         *)
SpecNewPatient ==
    /\ \E l \in {Limits(Handlers, {1},
                         {KindBody("name"), NumBody(1), KindBody("sex"),
                          KindBody("email"), TimeBody(10, 15)},
                         {}, NewPatientMaxSlots, NewPatientMaxAppts, 0)} :
           /\ slots = <<>>
           /\ appointments = <<>>
           /\ patients = [p \in l.patients |-> NewPatient(FirstStep, FALSE)]
           /\ req = [k \in Handlers |-> IdleFrame]
           /\ faults = l.faults
           /\ hist = HistOff
           /\ lim = l
    /\ [][\/ NextWebhook
          \/ \E h \in Handlers : UpdateProfileField(h)
          \/ \E h \in Handlers : UpdatePatientEmail(h)
          \/ \E h \in Handlers : CompleteProfileUpdate(h)]_vars

-----------------------------------------------------------------------------
(* The month options (main.py 190-199, 277-286) and the month choice        *)
(* (main.py 208-221) on real calendar dates.  A date is a record of year,   *)
(* month and day; in this specification a month option is the triple that   *)
(* the code stores, (dt.strftime('%B'), dt.year, dt.month).                 *)

(* Month options thirty days apart *)
month_options_thirty(today) ==
    LET is_leap(year) == year % 4 = 0 /\ (year % 100 # 0 \/ year % 400 = 0)
        days_in_month(year, month) ==
            IF month = 2 THEN (IF is_leap(year) THEN 29 ELSE 28)
            ELSE IF month \in {4, 6, 9, 11} THEN 30 ELSE 31
        carry(dt) ==
            IF dt.day <= days_in_month(dt.year, dt.month) THEN dt
            ELSE IF dt.month < 12
            THEN [year |-> dt.year, month |-> dt.month + 1,
                  day |-> dt.day - days_in_month(dt.year, dt.month)]
            ELSE [year |-> dt.year + 1, month |-> 1,
                  day |-> dt.day - days_in_month(dt.year, dt.month)]
        timedelta(dt, days) == carry(carry(carry([dt EXCEPT !.day = @ + days])))
        strftime_B == <<"January", "February", "March", "April", "May", "June",
                        "July", "August", "September", "October", "November",
                        "December">>
    IN  [i \in 1..NumMonthOptions |->
            LET dt == timedelta(today, 30 * (i - 1))
            IN  [name |-> strftime_B[dt.month], year |-> dt.year, month |-> dt.month]]

(* for i in range(3): dt = today + timedelta(days=31 * i);                  *)
(* months.append((dt.strftime('%B'), dt.year, dt.month)).  At most 62 days  *)
(* are added, which pass the end of a month at most three times.            *)
month_options(today) ==
    LET is_leap(year) == year % 4 = 0 /\ (year % 100 # 0 \/ year % 400 = 0)
        days_in_month(year, month) ==
            IF month = 2 THEN (IF is_leap(year) THEN 29 ELSE 28)
            ELSE IF month \in {4, 6, 9, 11} THEN 30 ELSE 31
        carry(dt) ==
            IF dt.day <= days_in_month(dt.year, dt.month) THEN dt
            ELSE IF dt.month < 12
            THEN [year |-> dt.year, month |-> dt.month + 1,
                  day |-> dt.day - days_in_month(dt.year, dt.month)]
            ELSE [year |-> dt.year + 1, month |-> 1,
                  day |-> dt.day - days_in_month(dt.year, dt.month)]
        timedelta(dt, days) == carry(carry(carry([dt EXCEPT !.day = @ + days])))
        strftime_B == <<"January", "February", "March", "April", "May", "June",
                        "July", "August", "September", "October", "November",
                        "December">>
    IN  [i \in 1..NumMonthOptions |->
            LET dt == timedelta(today, 31 * (i - 1))
            IN  [name |-> strftime_B[dt.month], year |-> dt.year, month |-> dt.month]]

(* main.py 277-286 (the same lines follow a reschedule choice, 190-199):    *)
(* datetime.now() is any day of the years from FirstYear; the options are   *)
(* listed, the step and the options are written; the date read is kept in   *)
(* the frame                                                                *)
StartBooking(h) ==
    /\ h \in lim.handlers
    /\ req[h].pc = "idle"
    /\ \E p \in lim.patients,
          today \in {dt \in [year : FirstYear..(FirstYear + NumYears - 1),
                             month : 1..12, day : 1..MaxDay] :
                        dt.day <= (IF dt.month = 2
                                   THEN (IF dt.year % 4 = 0 /\ (dt.year % 100 # 0
                                                                \/ dt.year % 400 = 0)
                                         THEN 29 ELSE 28)
                                   ELSE IF dt.month \in {4, 6, 9, 11} THEN 30
                                   ELSE 31)} :
          /\ patients[p].onboarding_step \in {"start", "completed"}
          /\ req' = SetFrame(h, [Writes(Observe(NewRequest(p, TextBody), DB),
                                        "choose_month",
                                        <<StepWrite("awaiting_month_selection"),
                                          CtxWrite([EmptyCtx EXCEPT !.month_options =
                                                       month_options(today)])>>)
                                    EXCEPT !.list = <<today>>], DB)
    /\ UNCHANGED <<slots, appointments, patients, faults, hist, lim>>

(* main.py 208-221: a message that is an integer arrives in the step        *)
(* awaiting_month_selection                                                 *)
ChooseMonth(h) ==
    /\ h \in lim.handlers
    /\ req[h].pc = "idle"
    /\ \E p \in lim.patients, choice \in 0..(NumMonthOptions + 1) :
          /\ patients[p].onboarding_step = "awaiting_month_selection"
          /\ req' = SetFrame(h, month_selection(
                                    Note(Note([Observe(NewRequest(p, NumBody(choice)), DB)
                                                  EXCEPT !.ctx = patients[p].notes,
                                                         !.step = patients[p].onboarding_step,
                                                         !.completed = TRUE],
                                              "step", patients[p].onboarding_step),
                                         "completed", TRUE)), DB)
    /\ UNCHANGED <<slots, appointments, patients, faults, hist, lim>>

(* One onboarded patient who starts a booking on any date and then answers  *)
(* the month question                                                       *)
SpecMonths ==
    /\ InitWith(Observed(Limits(SingleCaller, {1}, {}, {}, 0, 0, 0), {"skipped"}),
                HistOff)
    /\ [][\/ \E h \in Handlers : StartBooking(h)
          \/ \E h \in Handlers : ChooseMonth(h)
          \/ \E h \in Handlers : UpdatePatientOnboardingStep(h)
          \/ \E h \in Handlers : StoreBookingContext(h)
          \/ \E h \in Handlers : Finish(h)]_vars

-----------------------------------------------------------------------------
(* The webhook while the classifier is unavailable (get_gemini_model()     *)
(* returns None, gemini_service.py 53-57): every intent is the fallback's. *)
(* One onboarded patient writes a booking phrase, a greeting, the numbers  *)
(* 1 and 2, two times within hours or another text, one message at a       *)
(* time.  The patient is at step start, or was given the month options     *)
(* when the classifier still answered.                                     *)
SpecFallback ==
    /\ \E l \in {[Observed(Limits(SingleCaller, {1},
                                  {KindBody("booking"), KindBody("greeting"), NumBody(1),
                                   NumBody(2), TimeBody(10, 15), TimeBody(10, 30),
                                   TextBody},
                                  {}, FallbackMaxSlots, FallbackMaxAppts, 0),
                           {"skipped"}) EXCEPT !.classifier = FALSE]},
             step \in {"start", "awaiting_month_selection"} :
           /\ slots = <<>>
           /\ appointments = <<>>
           /\ patients = [p \in l.patients |->
                            [NewPatient(step, TRUE) EXCEPT
                                !.notes = IF step = "start" THEN EmptyCtx
                                          ELSE [EmptyCtx EXCEPT !.month_options = months]]]
           /\ req = [k \in Handlers |-> IdleFrame]
           /\ faults = l.faults
           /\ hist = HistOff
           /\ lim = l
    /\ [][\/ \E h \in Handlers : StartRequest(h)
          \/ \E h \in Handlers : GetPatientOnboardingStatus(h)
          \/ \E h \in Handlers : UpdatePatientOnboardingStep(h)
          \/ \E h \in Handlers : StoreBookingContext(h)
          \/ \E h \in Handlers : FindOrCreateSelect(h)
          \/ \E h \in Handlers : FindOrCreateOverlap(h)
          \/ \E h \in Handlers : FindOrCreateInsert(h)
          \/ \E h \in Handlers : BookSlotUpdate(h)
          \/ \E h \in Handlers : BookSlotInsert(h)
          \/ \E h \in Handlers : CreateCalendarEvent(h)
          \/ \E h \in Handlers : Finish(h)]_vars

-----------------------------------------------------------------------------
(* The webhook with several patients who each hold one confirmed           *)
(* appointment, made through the booking flow at an earlier time: patient  *)
(* p has appointment p on slot p.  Patient 1 asks for the list and answers *)
(* with the number 1, with messages in flight together; the other patients *)
(* send nothing meanwhile.  No time is sent, so no new booking is made.    *)
SpecTwoPatients ==
    /\ \E l \in {Limits(Handlers, {1}, {NumBody(1)}, {},
                         NumPatients, NumPatients, 0)} :
           /\ slots = [p \in Patients |->
                         [slot_start_time |-> astimezone_utc(start_time_local(1, 1, 10, 15))
                                                  + (p - 1) * SlotMinutes,
                          slot_end_time |-> astimezone_utc(start_time_local(1, 1, 10, 15))
                                                + p * SlotMinutes,
                          is_booked |-> TRUE]]
           /\ appointments = [p \in Patients |->
                                [patient_id |-> p, availability_id |-> p,
                                 appointment_time |-> slots[p].slot_start_time,
                                 status |-> "confirmed"]]
           /\ patients = [p \in Patients |-> NewPatient("start", TRUE)]
           /\ req = [k \in Handlers |-> IdleFrame]
           /\ faults = l.faults
           /\ hist = HistOff
           /\ lim = l
    /\ [][\/ \E h \in Handlers : StartRequest(h)
          \/ \E h \in Handlers : GetPatientOnboardingStatus(h)
          \/ \E h \in Handlers : GetUpcomingAppointments(h)
          \/ \E h \in Handlers : UpdatePatientOnboardingStep(h)
          \/ \E h \in Handlers : StoreBookingContext(h)
          \/ \E h \in Handlers : CancelAppointmentUpdate(h)
          \/ \E h \in Handlers : CancelAppointmentRelease(h)
          \/ \E h \in Handlers : Finish(h)]_vars

-----------------------------------------------------------------------------
(* Properties of the ledger and the inventory (specification Spec) *)

DirectDone(h, op) ==
    req[h].pc = "done" /\ req[h].top = "direct" /\ req[h].op = op

(* Two book_slot calls that ran at the same time on one slot which was     *)
(* free when each of them entered, with no third booking, no release of    *)
(* the slot and no store failure while they ran                            *)
BookPair(h, k) ==
    /\ h # k
    /\ DirectDone(h, "book") /\ DirectDone(k, "book")
    /\ req[h].slot = req[k].slot
    /\ req[h].pre /\ req[k].pre
    /\ req[h].rivals = {k} /\ req[k].rivals = {h}
    /\ ~req[h].faulted /\ ~req[k].faulted
    /\ ~req[h].disturbed /\ ~req[k].disturbed

(* C1: of two concurrent book_slot calls on the same free slot exactly one *)
(* returns an appointment, the other returns None, and the losing call     *)
(* inserts no appointment row.                                             *)
C1_ExactlyOneBooks ==
    \A h \in Handlers, k \in Handlers :
        BookPair(h, k) =>
            /\ (req[h].result # NoneV) # (req[k].result # NoneV)
            /\ req[h].result = NoneV => ~req[h].inserted
            /\ req[k].result = NoneV => ~req[k].inserted
            /\ Cardinality({a \in DOMAIN appointments :
                               /\ appointments[a].availability_id = req[h].slot
                               /\ appointments[a].status = "confirmed"}) <= 1

C1_Witness ==
    \E h \in Handlers, k \in Handlers :
        /\ BookPair(h, k)
        /\ req[h].result # NoneV /\ req[h].inserted
        /\ req[k].result = NoneV /\ ~req[k].reserved

(* C2: a book_slot call whose reservation succeeded and whose appointment  *)
(* insert then failed leaves is_booked false at its return and no          *)
(* appointment row of its own.                                             *)
C2_FailedInsertReleasesSlot ==
    \A h \in Handlers :
        (DirectDone(h, "book") /\ req[h].reserved /\ ~req[h].inserted) =>
            /\ req[h].result = NoneV
            /\ ~req[h].held

(* C6: once no operation is in flight, every slot with is_booked = true is *)
(* referenced by an appointment with status confirmed.                     *)
C6_BookedSlotHasAppointment ==
    Quiescent =>
        \A s \in DOMAIN slots :
            slots[s].is_booked =>
                \E a \in DOMAIN appointments :
                    /\ appointments[a].availability_id = s
                    /\ appointments[a].status = "confirmed"

(* C7: a second cancel_appointment call with the same appointment id and   *)
(* slot id returns success and leaves the appointment cancelled and the    *)
(* slot free, as the first call did.                                       *)
C7_CancelIdempotent ==
    \A h \in Handlers :
        (DirectDone(h, "cancel") /\ req[h].pre /\ ~req[h].faulted) =>
            /\ req[h].result = 1
            /\ appointments[req[h].appt].status = "cancelled"
            /\ ~req[h].held

C7_Witness ==
    \E h \in Handlers :
        /\ DirectDone(h, "cancel") /\ req[h].pre /\ ~req[h].faulted
        /\ req[h].result = 1
        /\ ~slots[req[h].slot].is_booked

(* C9: two concurrent find_or_create_availability_slot calls with the same *)
(* start time, for which no row existed when each of them entered, leave   *)
(* exactly one slot row with that start time.                              *)
C9_OneRowPerStart ==
    \A h \in Handlers, k \in Handlers :
        (/\ h # k
         /\ DirectDone(h, "find_or_create") /\ DirectDone(k, "find_or_create")
         /\ req[h].start = req[k].start
         /\ req[h].pre /\ req[k].pre
         /\ ~req[h].faulted /\ ~req[k].faulted) =>
            Cardinality({i \in DOMAIN slots :
                            slots[i].slot_start_time = req[h].start}) = 1

-----------------------------------------------------------------------------
(* Properties of the webhook (SpecWebhook, SpecRedelivery, SpecSerial) *)

Overlap(a, b) ==
    /\ a.slot_start_time < b.slot_end_time
    /\ b.slot_start_time < a.slot_end_time

(* C3: in every reachable state no two slots with is_booked = true have    *)
(* overlapping [start, end) windows.                                       *)
C3_NoOverlappingBookedSlots ==
    \A i \in DOMAIN slots, j \in DOMAIN slots :
        (i # j /\ slots[i].is_booked /\ slots[j].is_booked) =>
            ~Overlap(slots[i], slots[j])

ConfirmedOn(s) ==
    {a \in DOMAIN appointments : /\ appointments[a].availability_id = s
                                 /\ appointments[a].status = "confirmed"}

(* C4: in every reachable state at most one appointment with status        *)
(* confirmed references any given slot.                                    *)
C4_OneConfirmedPerSlot ==
    \A s \in DOMAIN slots : Cardinality(ConfirmedOn(s)) <= 1

(* No book_slot or cancel_appointment call is between its first store call *)
(* and its return                                                          *)
LedgerAtRest ==
    \A h \in Handlers :
        req[h].pc \notin {"book_update", "book_insert", "book_revert",
                          "cancel_update", "cancel_release"}

(* C5: whenever no book or cancel operation is in flight, each appointment *)
(* with status confirmed references a slot whose is_booked is true.        *)
C5_ConfirmedSlotIsBooked ==
    LedgerAtRest =>
        \A a \in DOMAIN appointments :
            appointments[a].status = "confirmed" =>
                slots[appointments[a].availability_id].is_booked

(* C10: once two messages of one patient that were in flight together have *)
(* both been handled, the patient row, the appointment rows and the slot   *)
(* rows are those of handling the two one after the other in some order.   *)
C10_SerialOutcome ==
    (Quiescent /\ hist.on /\ hist.ok /\ Len(hist.reqs) = 2) =>
        DB \in SerialOutcomes(hist.base, hist.reqs[1], hist.reqs[2])

-----------------------------------------------------------------------------
(* Properties of the round trip (SpecRoundTrip) *)

FreeAt(t) ==
    \A i \in DOMAIN slots : slots[i].slot_start_time = t => ~slots[i].is_booked

(* C8: when find_or_create_availability_slot(T) returns a slot, book_slot  *)
(* on it succeeds, cancel_appointment of that appointment with its slot id *)
(* succeeds, find_or_create_availability_slot(T) and book_slot succeed     *)
(* again; the second appointment is another row than the first, the first  *)
(* stays cancelled, and the slot at T is free from the cancel to the       *)
(* re-booking.                                                             *)
C8_RoundTrip ==
    \A h \in Handlers :
        LET f == req[h]
            returned == f.pc = "done"
        IN  /\ (returned /\ f.rt.phase = 2) =>
                   /\ f.result # NoneV
                   /\ appointments[f.result].status = "confirmed"
            /\ (returned /\ f.rt.phase = 3) =>
                   /\ f.result = 1
                   /\ appointments[f.rt.first].status = "cancelled"
            /\ (\/ returned /\ f.rt.phase = 3
                \/ f.rt.phase = 4
                \/ f.rt.phase = 5 /\ f.pc = "book_update") => FreeAt(f.rt.start)
            /\ (returned /\ f.rt.phase = 4) => f.result # NoneV
            /\ (returned /\ f.rt.phase = 5) =>
                   /\ f.result # NoneV
                   /\ f.result # f.rt.first
                   /\ appointments[f.result].status = "confirmed"
                   /\ appointments[f.rt.first].status = "cancelled"

C8_Witness ==
    \E h \in Handlers :
        /\ req[h].pc = "done" /\ req[h].rt.phase = 5
        /\ req[h].result # NoneV /\ req[h].result # req[h].rt.first
        /\ appointments[req[h].rt.first].status = "cancelled"

-----------------------------------------------------------------------------
(* Properties of the onboarding chain (specification SpecOnboarding) *)

(* An observed request of handler h is about to return its reply *)
ObservedDone(h) ==
    req[h].pc = "done" /\ req[h].top = "webhook" /\ req[h].obs.on

(* The patient row of the request of handler h when its message arrived *)
RowBefore(h) == req[h].obs.before.pats[req[h].patient]

Successor(step) ==
    CASE step = "start" -> "awaiting_name"
      [] step = "awaiting_name" -> "awaiting_age"
      [] step = "awaiting_age" -> "awaiting_sex"
      [] step = "awaiting_sex" -> "awaiting_email"
      [] step = "awaiting_email" -> "completed"
      [] OTHER -> "none"

Reprompt(step) ==
    CASE step = "awaiting_name" -> "invalid_name"
      [] step = "awaiting_age" -> "invalid_age"
      [] step = "awaiting_sex" -> "invalid_sex"
      [] step = "awaiting_email" -> "invalid_email"
      [] OTHER -> "none"

(* C11: a message of a patient whose onboarding is not completed, handled  *)
(* without a store failure, either leaves the patient row as it was and    *)
(* is answered with the re-prompt of the step, or moves the step to its    *)
(* immediate successor in the chain start, awaiting_name, awaiting_age,    *)
(* awaiting_sex, awaiting_email, completed.                                *)
C11_OnboardingChain ==
    \A h \in Handlers :
        (ObservedDone(h) /\ ~req[h].obs.completed /\ ~req[h].obs.faulted) =>
            \/ /\ patients[req[h].patient] = RowBefore(h)
               /\ req[h].reply = Reprompt(RowBefore(h).onboarding_step)
            \/ /\ Successor(RowBefore(h).onboarding_step) # "none"
               /\ patients[req[h].patient].onboarding_step =
                      Successor(RowBefore(h).onboarding_step)

(* The four profile columns of a patient row hold a value; the name that   *)
(* find_or_create_patient makes up counts as one                           *)
ProfileSet(row) ==
    /\ row.full_name \in {"placeholder", "given"}
    /\ row.age # 0
    /\ row.gender
    /\ row.email

(* C12: whenever no request is in flight, onboarding_completed is true     *)
(* exactly for the patients whose full_name, age, gender and email are all *)
(* set, also after a profile write of an onboarding step has failed.       *)
C12_CompletedIffProfileSet ==
    Quiescent =>
        \A p \in DOMAIN patients :
            patients[p].onboarding_completed <=> ProfileSet(patients[p])

-----------------------------------------------------------------------------
(* Properties of the booking flow (specifications SpecFlow, SpecFlowFaults) *)

(* The request of handler h was handled by the handler of its step: it is  *)
(* a request of an onboarded patient, read in the given step, and it did   *)
(* not take the greeting reset                                             *)
InStep(h, step) ==
    /\ ObservedDone(h)
    /\ req[h].obs.completed
    /\ req[h].obs.step = step
    /\ req[h].reply # "start_over"

(* The text of the request of handler h is a time of day that is outside   *)
(* the opening hours or, on the stored date, earlier than the clock        *)
RejectedTime(h) ==
    LET b == req[h].obs.body
        c == RowBefore(h).notes
    IN  /\ b.kind = "time"
        /\ \/ ~(OpenHour <= b.h /\ b.h < CloseHour)
           \/ start_time_local(c.month, c.day, b.h, b.m) < NowLocal

(* C13: in step awaiting_time_selection a time outside the opening hours   *)
(* or in the past is answered with the reply that explains the rejection,  *)
(* and the request leaves the patient row, the slots and the appointments  *)
(* as they were.                                                           *)
C13_RejectedTimeChangesNothing ==
    \A h \in Handlers :
        (InStep(h, "awaiting_time_selection") /\ RejectedTime(h)) =>
            /\ req[h].reply \in {"outside_hours", "in_the_past"}
            /\ DB = req[h].obs.before

NumericChoiceSteps ==
    {"awaiting_cancellation_choice", "awaiting_reschedule_choice",
     "awaiting_month_selection"}

(* The text of the request of handler h is an integer between 1 and the    *)
(* length of the list the context held for the step                        *)
ValidChoice(h) ==
    LET b == req[h].obs.body
        c == RowBefore(h).notes
        list == IF req[h].obs.step = "awaiting_month_selection"
                THEN c.month_options ELSE c.appointments
    IN  b.kind = "num" /\ 1 <= b.n /\ b.n <= Len(list)

ChoiceReprompts ==
    {"cancel_number_only", "reschedule_number_only", "not_a_valid_number",
     "month_number_only", "invalid_month"}

C15_GreetingResets ==
    \A h \in Handlers :
        (/\ ObservedDone(h) /\ req[h].obs.completed
         /\ req[h].obs.intent = "greeting"
         /\ req[h].obs.step \notin {"start", "completed"}) =>
            /\ req[h].reply = "start_over"
            /\ patients[req[h].patient] =
                   [RowBefore(h) EXCEPT !.onboarding_step = "start", !.notes = EmptyCtx]
            /\ slots = req[h].obs.before.slots
            /\ appointments = req[h].obs.before.appts

(* A greeting that carries the number of a listed, confirmed appointment   *)
(* while the patient is choosing the appointment to cancel                 *)
C15_Witness ==
    \E h \in Handlers :
        /\ ObservedDone(h) /\ req[h].obs.completed
        /\ req[h].obs.intent = "greeting"
        /\ req[h].obs.step = "awaiting_cancellation_choice"
        /\ req[h].obs.body = NumBody(1)
        /\ Len(RowBefore(h).notes.appointments) >= 1
        /\ appointments[RowBefore(h).notes.appointments[1].id].status = "confirmed"
        /\ patients[req[h].patient].onboarding_step = "start"

(* The ends a request can come to from frame f when no store call fails:   *)
(* the store it leaves and the reply it gives                              *)
RECURSIVE Completion(_, _)
Completion(db, f) ==
    IF f.pc = "done" THEN {[db |-> db, reply |-> f.reply]}
    ELSE UNION {Completion(o.db, o.f) : o \in {x \in Succ(db, f, FALSE) : ~x.fault}}

(* The ends of the request of handler h, which has read the patient row    *)
(* and is about to read the step, when the classifier answers intent       *)
Handled(h, intent) ==
    Completion(DB, dispatch(DB, [req[h] EXCEPT
                                    !.step = patients[req[h].patient].onboarding_step,
                                    !.intent = intent, !.attempt = 0]))

-----------------------------------------------------------------------------
(* Properties of the reply (specification SpecOnboardingRace) *)

(* C17: a webhook request that is about to return has put a message text   *)
(* into its reply, or has sent the answer to a medical query through the   *)
(* messaging channel.                                                      *)
C17_AlwaysAReply ==
    \A h \in Handlers :
        (req[h].pc = "done" /\ req[h].top = "webhook") => req[h].reply # "empty"

-----------------------------------------------------------------------------
(* Properties of the order of writes (specification SpecFlowFaults) *)

(* C18: a request in which cancel_appointment returned failure, or in      *)
(* which a profile write of an onboarding step failed, leaves the          *)
(* patient's step and context as they were.                                *)
C18_WritesAfterSuccess ==
    \A h \in Handlers :
        (ObservedDone(h) /\ req[h].obs.failed) =>
            /\ patients[req[h].patient].onboarding_step = RowBefore(h).onboarding_step
            /\ patients[req[h].patient].notes = RowBefore(h).notes

-----------------------------------------------------------------------------
(* Properties of the end of a booking (specification SpecFlow) *)

(* C19: a time-selection request that has handed its time to               *)
(* find_or_create_availability_slot leaves the patient's step at start,    *)
(* whether the booking succeeded or met a conflict.                        *)
C19_StartAfterBookingAttempt ==
    \A h \in Handlers :
        (InStep(h, "awaiting_time_selection") /\ req[h].obs.found.called) =>
            patients[req[h].patient].onboarding_step = "start"

(* C20: once book_slot has returned an appointment to a time-selection     *)
(* request, the request ends, whatever create_calendar_event came to, with *)
(* the appointment confirmed, its slot booked, the step at start, the      *)
(* context empty and the confirmation as its reply; the calendar result    *)
(* decides only whether the reply carries the add-to-calendar link.        *)
C20_CalendarNeverReverses ==
    \A h \in Handlers :
        (/\ InStep(h, "awaiting_time_selection")
         /\ req[h].obs.booked.called /\ req[h].obs.booked.result # NoneV) =>
            LET a == req[h].obs.booked.result
            IN  /\ req[h].obs.calendar \in CalendarOutcomes
                /\ a \in DOMAIN appointments
                /\ appointments[a].status = "confirmed"
                /\ slots[appointments[a].availability_id].is_booked
                /\ patients[req[h].patient].onboarding_step = "start"
                /\ patients[req[h].patient].notes = EmptyCtx
                /\ req[h].reply \in {"confirmed", "confirmed_with_link"}
                /\ req[h].reply = "confirmed_with_link" <=>
                       req[h].obs.calendar \in {"without_attendee_with_email", "basic_event"}

(* A booking whose calendar call ended in an error result *)
C20_Witness ==
    \E h \in Handlers :
        /\ InStep(h, "awaiting_time_selection")
        /\ req[h].obs.booked.called /\ req[h].obs.booked.result # NoneV
        /\ req[h].obs.calendar = "error"
        /\ req[h].reply = "confirmed"
        /\ appointments[req[h].obs.booked.result].status = "confirmed"

-----------------------------------------------------------------------------
(* Properties of the classifier adapter (specification SpecClassifier) *)

(* C21: analyze_message never raises and always ends with a mapping that   *)
(* has an intent and an entities mapping holding every expected entity     *)
(* key, whatever the message (the empty one included) and whatever the     *)
(* classifier did (unavailable, raising, empty, not JSON, JSON without     *)
(* intent or entities); it calls the classifier at most three times, and   *)
(* after the third call it has returned.                                   *)
C21_AlwaysAStructuredResult ==
    \A h \in Handlers :
        req[h].top = "classify" =>
            /\ req[h].pc \in {"analyze", "done"}
            /\ req[h].attempt <= max_retries
            /\ req[h].pc = "analyze" => req[h].attempt < max_retries
            /\ req[h].pc = "done" =>
                  /\ {"intent", "entities"} \subseteq DOMAIN req[h].result
                  /\ DOMAIN required_entities \subseteq DOMAIN req[h].result.entities

(* A whitespace-only message sent to the fallback after three calls whose  *)
(* answers were unusable, and a classifier answer with one entity that     *)
(* came back with the other ten set to null                                *)
C21_Witness ==
    /\ req[1].top = "classify" /\ req[1].pc = "done"
    /\ \/ /\ req[1].body.kind = "blank"
          /\ req[1].attempt = max_retries
          /\ req[1].result = [intent |-> "unknown", entities |-> required_entities]
       \/ /\ req[1].attempt = 2
          /\ req[1].result.intent = "select_choice"
          /\ req[1].result.entities.slot_number = NumBody(1)
          /\ req[1].result.entities.age = KindBody("null")

(* C22: when the classifier is unavailable a bare integer is classified by *)
(* the step: in current_symptoms the values 1..5 give select_slot with the *)
(* number as slot_number; for an onboarded patient in step start,          *)
(* completed or none the values 1..4 give profile_choice; in step age the  *)
(* values 1..120 give provide_age; and a bare integer never gives          *)
(* provide_current_symptoms or a current_symptoms entity.                  *)
C22_BareIntegerByContext ==
    \A h \in Handlers :
        (/\ req[h].top = "classify" /\ req[h].pc = "done" /\ req[h].attempt = 0
         /\ req[h].body.kind \in {"num", "padded"}) =>
            LET r == req[h].result
                n == req[h].body.n
                step == req[h].step
            IN  /\ (step = "current_symptoms" /\ n \in 1..5) =>
                       r.intent = "select_slot" /\ r.entities.slot_number = req[h].body
                /\ (req[h].completed /\ step \in {"start", "completed", "none"}
                                     /\ n \in 1..4) =>
                       r.intent = "profile_choice" /\ r.entities.profile_choice = req[h].body
                /\ (step = "age" /\ n \in MinAge..MaxAge) =>
                       r.intent = "provide_age" /\ r.entities.age = req[h].body
                /\ r.intent # "provide_current_symptoms"
                /\ r.entities.current_symptoms = KindBody("null")

-----------------------------------------------------------------------------
(* Properties of retry_with_backoff (specification SpecRetry) *)

(* C23: retry_with_backoff ends for every operation.  It invokes the       *)
(* operation at most three times, sleeps 1 second after the first failure  *)
(* and 2 seconds after the second (never more than MAX_DELAY), returns the *)
(* value of the first invocation that does not raise, and when the third   *)
(* invocation raises too its caller returns the failure value.             *)
C23_RetryTerminates ==
    /\ [](\A h \in Handlers :
            LET f == req[h]
                failed == f.result = NoneV
            IN  /\ f.list \in {<<>>, <<1>>, <<1, 2>>}
                /\ \A i \in DOMAIN f.list : f.list[i] <= MAX_DELAY
                /\ f.pc \in {"invoke", "done"}
                /\ f.pc = "invoke" => f.attempt = Len(f.list) /\ f.attempt < MAX_RETRIES
                /\ f.pc = "done" =>
                      /\ failed => f.list = <<1, 2>> /\ f.faulted
                      /\ f.faulted <=> (failed \/ f.list # <<>>))
    /\ <>(\A h \in Handlers : req[h].pc = "done")

(* One call gave up after three raising invocations and two sleeps, the    *)
(* other returned the value of its third invocation                        *)
C23_Witness ==
    /\ req[1].pc = "done" /\ req[1].op = "find_or_create"
    /\ req[1].list = <<1, 2>> /\ req[1].result = NoneV
    /\ req[2].pc = "done" /\ req[2].op = "cancel"
    /\ req[2].list = <<1, 2>> /\ req[2].result = 2

-----------------------------------------------------------------------------
(* Properties of the status updates (specification SpecStatus) *)

(* C24: send_status_updates sends a prefix of Searching, Retrieving,       *)
(* Thinking, Analysing, in that order and at most four messages; once the  *)
(* stop event is set it sends nothing more and no time of its wait passes  *)
(* (the wait ends instead of running its full delay); and it always ends.  *)
C24_StatusUpdatesStopPromptly ==
    /\ [](\A h \in Handlers :
            /\ Len(req[h].list) <= Len(status_messages)
            /\ \A i \in DOMAIN req[h].list :
                  req[h].list[i] = status_messages[i].message)
    /\ [][\A h \in Handlers :
            req[h].pc # "dermatology" =>
                /\ req'[h].list = req[h].list
                /\ req'[h].start = req[h].start
                /\ req[h].step = "status_wait" =>
                      req'[h].step # "status_wait" \/ req'[h] = req[h]]_vars
    /\ \A h \in Handlers : <>[](req[h].step = "status_done")

(* One task was stopped in the wait after its second message, the other    *)
(* sent all four messages before the answer came                           *)
C24_Witness ==
    /\ req[1].step = "status_done" /\ req[1].pc = "await_status"
    /\ req[1].list = <<"Searching...", "Retrieving...">>
    /\ req[1].start = 2
    /\ req[2].step = "status_done" /\ req[2].pc = "dermatology"
    /\ Len(req[2].list) = 4

-----------------------------------------------------------------------------
(* Properties of find_or_create_patient (specification SpecPatients) *)

(* C25: however calls of find_or_create_patient interleave and are         *)
(* retried, no two patient rows have the same phone number; and a call for *)
(* a number that had a row when the call began inserts nothing, leaves     *)
(* that row as it was and returns it (or, when its store calls failed on   *)
(* every attempt, returns nothing).                                        *)
C25_OnePatientPerPhone ==
    /\ \A i, j \in DOMAIN patients :
          patients[i].phone_number = patients[j].phone_number => i = j
    /\ \A h \in Handlers :
          (/\ req[h].op = "find_or_create_patient" /\ req[h].pc = "done"
           /\ req[h].pre) =>
              /\ ~req[h].inserted
              /\ patients[req[h].slot] =
                    [phone_number |-> req[h].start, full_name |-> "placeholder"]
              /\ \/ req[h].result = req[h].slot
                 \/ req[h].faulted /\ req[h].result = NoneV

(* Two first messages from one unseen number handled together with no      *)
(* store failure: one call inserted the row, the insert of the other was   *)
(* refused, and both returned the one row                                  *)
C25_Witness ==
    /\ faults = lim.faults
    /\ Len(patients) = 1
    /\ \A h \in Handlers :
          /\ req[h].op = "find_or_create_patient" /\ req[h].pc = "done"
          /\ ~req[h].pre /\ req[h].start = patients[1].phone_number
          /\ req[h].result = 1
    /\ req[1].inserted /\ ~req[1].faulted
    /\ ~req[2].inserted /\ req[2].faulted

-----------------------------------------------------------------------------
(* Properties of update_profile_field (specification SpecProfile) *)

(* C26: update_profile_field called with a field other than email, age,    *)
(* gender, full_name and notes, or with the field age and a value that is  *)
(* not an integer from 1 to 120, returns its failure value and leaves the  *)
(* patients table as it was.                                               *)
C26_RejectedProfileUpdateWritesNothing ==
    \A h \in Handlers :
        (/\ req[h].op = "update_profile_field" /\ req[h].pc = "done"
         /\ \/ req[h].intent \notin {"email", "age", "gender", "full_name", "notes"}
            \/ /\ req[h].intent = "age"
               /\ ~(req[h].body.kind = "num" /\ req[h].body.n \in 1..120)) =>
            /\ req[h].obs.failed
            /\ patients = req[h].obs.before.pats

(* A refused age of 121 and a refused field, each after an age had been    *)
(* stored, with no store failure                                           *)
C26_Witness ==
    /\ faults = lim.faults
    /\ patients[1].age = MaxAge
    /\ req[1].op = "update_profile_field" /\ req[1].pc = "done"
    /\ req[1].obs.failed
    /\ \/ req[1].intent = "age" /\ req[1].body = NumBody(MaxAge + 1)
       \/ req[1].intent = "phone_number"

-----------------------------------------------------------------------------
(* Properties of single calls (specification SpecDirect) *)

(* C27: cancel_appointment returns False when no appointment has the id,   *)
(* and then changes no slot (nor any appointment) even if a slot id was    *)
(* given; when the appointment is updated and the slot id matches no slot, *)
(* it still returns True and the appointment is cancelled.                 *)
C27_CancelWithoutMatchingRow ==
    \A h \in Handlers :
        (DirectDone(h, "cancel") /\ req[h].obs.on) =>
            LET before == req[h].obs.before
            IN  /\ req[h].appt \notin DOMAIN before.appts =>
                      /\ req[h].result = 0
                      /\ slots = before.slots
                      /\ appointments = before.appts
                /\ (/\ req[h].appt \in DOMAIN before.appts
                    /\ req[h].slot # NoneV
                    /\ req[h].slot \notin DOMAIN before.slots
                    /\ ~req[h].faulted) =>
                      /\ req[h].result = 1
                      /\ appointments[req[h].appt].status = "cancelled"
                      /\ slots = before.slots

(* A cancellation of a confirmed appointment with the id of a slot that    *)
(* does not exist                                                          *)
C27_Witness ==
    \E h \in Handlers :
        /\ DirectDone(h, "cancel") /\ req[h].obs.on /\ ~req[h].faulted
        /\ req[h].appt \in DOMAIN req[h].obs.before.appts
        /\ req[h].obs.before.appts[req[h].appt].status = "confirmed"
        /\ req[h].slot # NoneV /\ req[h].slot \notin DOMAIN slots
        /\ req[h].result = 1
        /\ appointments[req[h].appt].status = "cancelled"


(* C30: find_or_create_availability_slot, run alone and without a store    *)
(* failure: a free slot at exactly that start is returned and nothing is   *)
(* inserted; a booked slot at exactly that start gives None and nothing is *)
(* inserted; no slot at that start but a booked slot overlapping           *)
(* [start, end) gives None and nothing is inserted; otherwise exactly one  *)
(* free slot with that start and end is inserted and returned.             *)
C30_FindOrCreateCases ==
    \A h \in Handlers :
        (DirectDone(h, "find_or_create") /\ req[h].obs.on /\ ~req[h].faulted) =>
            LET before == req[h].obs.before.slots
                start_time == req[h].start
                end_time == start_time + SlotMinutes
                same == {i \in DOMAIN before : before[i].slot_start_time = start_time}
                overlapping == {i \in DOMAIN before :
                                   /\ before[i].slot_start_time < end_time
                                   /\ before[i].slot_end_time > start_time
                                   /\ before[i].is_booked}
                row == [slot_start_time |-> start_time, slot_end_time |-> end_time,
                        is_booked |-> FALSE]
            IN  /\ (\E i \in same : ~before[i].is_booked) =>
                       /\ req[h].result \in same
                       /\ ~before[req[h].result].is_booked
                       /\ slots = before
                /\ (\E i \in same : before[i].is_booked) =>
                       req[h].result = NoneV /\ slots = before
                /\ (same = {} /\ overlapping # {}) =>
                       req[h].result = NoneV /\ slots = before
                /\ (same = {} /\ overlapping = {}) =>
                       /\ slots = Append(before, row)
                       /\ req[h].result = Len(slots)

(* A call for a start that no slot has while a booked slot a quarter of an *)
(* hour away overlaps it                                                   *)
C30_Witness ==
    \E h \in Handlers :
        /\ DirectDone(h, "find_or_create") /\ req[h].obs.on /\ ~req[h].faulted
        /\ \A i \in DOMAIN req[h].obs.before.slots :
               req[h].obs.before.slots[i].slot_start_time # req[h].start
        /\ \E i \in DOMAIN req[h].obs.before.slots :
               /\ req[h].obs.before.slots[i].is_booked
               /\ req[h].obs.before.slots[i].slot_start_time < req[h].start + SlotMinutes
               /\ req[h].obs.before.slots[i].slot_end_time > req[h].start
        /\ req[h].result = NoneV
        /\ slots = req[h].obs.before.slots


-----------------------------------------------------------------------------
(* Properties of the stored step (specification SpecOnboardingRace) *)

(* C28: the stored step of every patient is one of the eleven steps, and a *)
(* request that reads a step which the branch it takes has no handler for  *)
(* (main.py 102-145 for onboarding_completed read as false, main.py        *)
(* 158-274 for an awaiting_ step of an onboarded patient, the greeting     *)
(* reset of main.py 152-155 apart) answers with the generic apology.       *)
C28_StepEnumeratedAndHandled ==
    /\ [](\A p \in DOMAIN patients :
              patients[p].onboarding_step \in
                  {"start", "awaiting_name", "awaiting_age", "awaiting_sex",
                   "awaiting_email", "completed", "awaiting_month_selection",
                   "awaiting_date_selection", "awaiting_time_selection",
                   "awaiting_cancellation_choice", "awaiting_reschedule_choice"})
    /\ [][\A h \in Handlers :
              LET current_step == patients[req[h].patient].onboarding_step
                  unhandled ==
                      IF ~req[h].completed
                      THEN current_step \notin
                               {"start", "awaiting_name", "awaiting_age",
                                "awaiting_sex", "awaiting_email"}
                      ELSE current_step \in
                               {"awaiting_name", "awaiting_age", "awaiting_sex",
                                "awaiting_email"}
              IN  (/\ req[h].pc = "get_status"
                   /\ req'[h].pc = "done"
                   /\ unhandled
                   /\ req'[h].reply # "start_over")
                  => req'[h].reply = "system_error"]_vars


-----------------------------------------------------------------------------
(* Properties of the onboarding gate (specification SpecNewPatient) *)

(* C29: a request that reads the step of a patient whose stored            *)
(* onboarding_completed is false gets one of the replies of the onboarding *)
(* branch, which does not ask the classifier (its writes go to the patient *)
(* row only); no request of such a patient is inside a ledger or inventory *)
(* call; every change of a slot or an appointment is made by a request of  *)
(* a patient whose onboarding is completed; and every appointment row      *)
(* belongs to such a patient.                                              *)
C29_LedgerOnlyAfterOnboarding ==
    /\ [][\A h \in Handlers :
              (/\ req[h].pc = "get_status"
               /\ req'[h].pc # "get_status"
               /\ ~patients[req[h].patient].onboarding_completed)
              => /\ req'[h].pc \in {"writes", "done"}
                 /\ req'[h].reply \in
                        {"welcome", "ask_age", "ask_sex", "ask_email",
                         "profile_complete", "invalid_name", "invalid_age",
                         "invalid_sex", "invalid_email", "system_error", "empty"}
                 /\ \A i \in DOMAIN req'[h].todo :
                        req'[h].todo[i].w \in {"step", "field", "email", "complete"}]_vars
    /\ [](\A h \in Handlers :
              (/\ req[h].top = "webhook"
               /\ ~patients[req[h].patient].onboarding_completed)
              => req[h].op \notin {"book", "cancel", "find_or_create", "upcoming"})
    /\ [](\A i \in DOMAIN appointments :
              patients[appointments[i].patient_id].onboarding_completed)
    /\ [][(slots' # slots \/ appointments' # appointments)
          => \E h \in Handlers :
                 /\ req'[h] # req[h]
                 /\ req[h].top = "webhook"
                 /\ patients[req[h].patient].onboarding_completed]_vars

(* A request of a patient still in onboarding has answered the age         *)
(* question while another message of that patient is being handled and the *)
(* ledger is empty                                                         *)
C29_Witness ==
    \E h \in Handlers, k \in Handlers :
        /\ h # k
        /\ req[h].pc = "done" /\ req[h].top = "webhook"
        /\ req[k].pc = "writes" /\ req[k].patient = req[h].patient
        /\ ~patients[req[h].patient].onboarding_completed
        /\ patients[req[h].patient].onboarding_step = "awaiting_sex"
        /\ req[h].reply = "ask_sex"
        /\ slots = <<>> /\ appointments = <<>>


-----------------------------------------------------------------------------
(* Properties of a reschedule (specification SpecFlowFaults) *)

(* C31: once a request with a valid reschedule choice has gone on to its   *)
(* writes of the step and the context, the chosen appointment is cancelled *)
(* and its slot is free, and the request ends with the step                *)
(* awaiting_month_selection and a context that holds the month options     *)
(* only; an appointment booked afterwards is a new row; and no step ever   *)
(* changes the slot reference, the time or the patient of an appointment,  *)
(* or removes one.                                                         *)
C31_RescheduleCancelsFirst ==
    /\ [](\A h \in Handlers :
              (/\ req[h].top = "webhook" /\ req[h].obs.on
               /\ req[h].obs.completed
               /\ req[h].obs.step = "awaiting_reschedule_choice"
               /\ req[h].reply = "choose_month"
               /\ req[h].pc \in {"writes", "done"}) =>
                  LET chosen == RowBefore(h).notes.appointments[req[h].obs.body.n]
                  IN  /\ appointments[chosen.id].status = "cancelled"
                      /\ ~slots[chosen.availability_id].is_booked
                      /\ req[h].pc = "done" =>
                             /\ patients[req[h].patient].onboarding_step =
                                    "awaiting_month_selection"
                             /\ patients[req[h].patient].notes =
                                    [EmptyCtx EXCEPT !.month_options = months])
    /\ [](\A h \in Handlers :
              (/\ ObservedDone(h)
               /\ req[h].obs.booked.called /\ req[h].obs.booked.result # NoneV) =>
                  req[h].obs.booked.result \notin DOMAIN req[h].obs.before.appts)
    /\ [][/\ Len(appointments') >= Len(appointments)
          /\ \A i \in DOMAIN appointments :
                 /\ appointments'[i].availability_id = appointments[i].availability_id
                 /\ appointments'[i].appointment_time = appointments[i].appointment_time
                 /\ appointments'[i].patient_id = appointments[i].patient_id]_vars


-----------------------------------------------------------------------------
(* Properties of the month options (specification SpecMonths) *)

(* C32: a request that starts a booking stores exactly three month options *)
(* and the step awaiting_month_selection; whatever the date, the first     *)
(* option is the month of that date and the (year, month) pairs of the     *)
(* options strictly increase; each option carries the name of its month;   *)
(* and in the step awaiting_month_selection a choice k in 1..3, and no     *)
(* other, stores the k-th option and the step awaiting_date_selection.     *)
C32_MonthOptions ==
    \A h \in Handlers :
        /\ (ObservedDone(h) /\ req[h].reply = "choose_month") =>
               LET today == req[h].list[1]
                   opts == patients[req[h].patient].notes.month_options
               IN  /\ patients[req[h].patient].onboarding_step = "awaiting_month_selection"
                   /\ patients[req[h].patient].notes =
                          [EmptyCtx EXCEPT !.month_options = opts]
                   /\ Len(opts) = 3
                   /\ opts[1].year = today.year /\ opts[1].month = today.month
                   /\ \A i \in 1..2 :
                          opts[i].year * 12 + opts[i].month
                              < opts[i + 1].year * 12 + opts[i + 1].month
                   /\ \A i \in 1..3 : opts[i].month \in 1..12
        /\ (ObservedDone(h) /\ req[h].obs.step = "awaiting_month_selection") =>
               LET k == req[h].obs.body.n
                   opts == RowBefore(h).notes.month_options
               IN  IF k \in 1..3
                   THEN /\ patients[req[h].patient].notes =
                               [EmptyCtx EXCEPT !.month = opts[k]]
                        /\ patients[req[h].patient].onboarding_step =
                               "awaiting_date_selection"
                   ELSE patients[req[h].patient] = RowBefore(h)

(* On 31 January of a year that is not a leap year the options are         *)
(* January, March and April, and the second one is chosen                  *)
C32_Witness ==
    \E h \in Handlers :
        /\ ObservedDone(h) /\ req[h].obs.step = "awaiting_month_selection"
        /\ req[h].obs.body.n = 2
        /\ RowBefore(h).notes.month_options[1].month = 1
        /\ RowBefore(h).notes.month_options[3].month = 4
        /\ patients[req[h].patient].notes.month.name = "March"
        /\ patients[req[h].patient].onboarding_step = "awaiting_date_selection"


-----------------------------------------------------------------------------
(* Properties of the date and time steps (specification SpecFlow) *)

C34_SlotTimes ==
    /\ [][\A h \in Handlers :
              (req[h].pc = "get_status" /\ req'[h].pc = "foc_select") =>
                  LET b == req'[h].obs.body
                      c == patients[req[h].patient].notes
                      local == start_time_local(c.month, c.day, b.h, b.m)
                  IN  /\ b.kind = "time"
                      /\ OpenHour <= b.h /\ b.h < CloseHour
                      /\ local >= NowLocal
                      /\ req'[h].start = local - 330
                      /\ req'[h].start >= NowLocal - 330]_vars
    /\ [](\A i \in DOMAIN slots :
              slots[i].slot_end_time = slots[i].slot_start_time + 30)
    /\ [](\A h \in Handlers :
              (/\ InStep(h, "awaiting_time_selection")
               /\ req[h].obs.booked.called /\ req[h].obs.booked.result # NoneV) =>
                  LET a == appointments[req[h].obs.booked.result]
                      shown == astimezone_kolkata(a.appointment_time)
                  IN  /\ a.appointment_time = slots[a.availability_id].slot_start_time
                      /\ shown.hour = req[h].obs.body.h
                      /\ shown.minute = req[h].obs.body.m
                      /\ shown.day = RowBefore(h).notes.day
                             + (RowBefore(h).notes.month - 1) * MaxDay)

(* The time 10:15 on day 1 is booked: the slot starts at 04:45 UTC *)
C34_Witness ==
    \E h \in Handlers :
        /\ InStep(h, "awaiting_time_selection")
        /\ req[h].obs.body = TimeBody(10, 15)
        /\ RowBefore(h).notes.day = 1 /\ RowBefore(h).notes.month = 1
        /\ req[h].obs.booked.called /\ req[h].obs.booked.result # NoneV
        /\ appointments[req[h].obs.booked.result].appointment_time = 4 * 60 + 45
        /\ astimezone_kolkata(appointments[req[h].obs.booked.result].appointment_time).hour = 10


(***************************************************************************)
(* C35 (specification SpecFlow).  When the time-selection step succeeds    *)
(* (book_slot returned an appointment), the request has added exactly one  *)
(* appointment row: it belongs to the requesting patient, is confirmed,    *)
(* references the slot find_or_create_availability_slot returned and       *)
(* carries that slot's start time.  That slot was free (or did not exist)  *)
(* before the request and is booked after it, no other slot and no other   *)
(* appointment changed, the stored context is empty and the step is start. *)
(***************************************************************************)
C35_SuccessfulBookingWrites ==
    \A h \in Handlers :
        (/\ InStep(h, "awaiting_time_selection")
         /\ req[h].obs.booked.called /\ req[h].obs.booked.result # NoneV) =>
            LET before == req[h].obs.before
                s == req[h].obs.found.result
                row == [patient_id |-> req[h].patient, availability_id |-> s,
                        appointment_time |-> slots[s].slot_start_time,
                        status |-> "confirmed"]
            IN  /\ req[h].obs.found.called
                /\ s \in DOMAIN slots
                /\ appointments = Append(before.appts, row)
                /\ req[h].obs.booked.result = Len(appointments)
                /\ s \in DOMAIN before.slots => ~before.slots[s].is_booked
                /\ slots[s].is_booked
                /\ \A i \in DOMAIN before.slots :
                       /\ i \in DOMAIN slots
                       /\ i # s => slots[i] = before.slots[i]
                       /\ i = s => slots[i] = [before.slots[i] EXCEPT !.is_booked = TRUE]
                /\ patients[req[h].patient].notes = EmptyCtx
                /\ patients[req[h].patient].onboarding_step = "start"

C35_Witness ==
    \E h \in Handlers :
        /\ InStep(h, "awaiting_time_selection")
        /\ req[h].obs.booked.called /\ req[h].obs.booked.result # NoneV
        /\ RowBefore(h).notes # EmptyCtx
        /\ RowBefore(h).onboarding_step = "awaiting_time_selection"
        /\ Len(appointments) = Len(req[h].obs.before.appts) + 1
        /\ appointments[Len(appointments)].patient_id = req[h].patient
        /\ slots[req[h].obs.found.result].is_booked


(***************************************************************************)
(* C36 (specification SpecClassifier).  When the answer comes from the     *)
(* rule-based fallback (the classifier is unavailable), the texts other,   *)
(* others and different are classified request_custom_date in every step;  *)
(* the current_symptoms entity is set only together with the intent        *)
(* provide_current_symptoms; and that intent is returned only in step      *)
(* current_symptoms for a text that is not a bare integer, holds a symptom *)
(* keyword and is neither a custom date/time request nor other.            *)
(***************************************************************************)
C36_OtherIsNeverASymptom ==
    \A h \in Handlers :
        (req[h].top = "classify" /\ req[h].pc = "done" /\ req[h].attempt = 0) =>
            LET r == req[h].result
                message == req[h].body
            IN  /\ message.kind = "other" =>
                       /\ r.intent = "request_custom_date"
                       /\ r.entities.current_symptoms = KindBody("null")
                /\ r.entities.current_symptoms # KindBody("null") =>
                       r.intent = "provide_current_symptoms"
                /\ r.intent = "provide_current_symptoms" =>
                       /\ req[h].step = "current_symptoms"
                       /\ message.kind = "symptom"
                       /\ r.entities.current_symptoms = message

C36_Witness ==
    \E h \in Handlers :
        /\ req[h].top = "classify" /\ req[h].pc = "done" /\ req[h].attempt = 0
        /\ req[h].step = "gender"
        /\ req[h].body.kind = "other"
        /\ req[h].result.intent = "request_custom_date"
        /\ req[h].result.entities.custom_request = req[h].body


(***************************************************************************)
(* C37 (specification SpecFlowFaults).  Whenever no request is being       *)
(* handled, the context stored for a completed patient matches the stored  *)
(* step: three month options in awaiting_month_selection, a month in       *)
(* awaiting_date_selection, a month and a day in awaiting_time_selection,  *)
(* a non-empty appointment list in awaiting_cancellation_choice and        *)
(* awaiting_reschedule_choice, and no choice data at all in start; also    *)
(* after requests whose context write failed.                              *)
(***************************************************************************)
C37_ContextMatchesStep ==
    Quiescent =>
        \A p \in DOMAIN patients :
            LET step == patients[p].onboarding_step
                context == patients[p].notes
            IN  patients[p].onboarding_completed =>
                    /\ step = "awaiting_month_selection" =>
                           Len(context.month_options) = NumMonthOptions
                    /\ step = "awaiting_date_selection" => context.month # 0
                    /\ step = "awaiting_time_selection" =>
                           context.month # 0 /\ context.day # 0
                    /\ step \in {"awaiting_cancellation_choice",
                                 "awaiting_reschedule_choice"} =>
                           context.appointments # <<>>
                    /\ step = "start" => context = EmptyCtx


(***************************************************************************)
(* C38 (specification SpecFallback).  With the classifier unavailable, a   *)
(* completed patient at step start who sends 'book appointment' is moved   *)
(* to awaiting_month_selection and is given the three month options.       *)
(***************************************************************************)
C38_FallbackStartsBooking ==
    \A h \in Handlers :
        (/\ InStep(h, "start")
         /\ req[h].obs.body.kind = "booking") =>
            /\ patients[req[h].patient].onboarding_step = "awaiting_month_selection"
            /\ Len(patients[req[h].patient].notes.month_options) = NumMonthOptions


(***************************************************************************)
(* C39 (specification SpecTwoPatients).  Every appointment a webhook       *)
(* request cancels belongs to the patient who sent the message, and        *)
(* whenever no request is being handled the candidate list stored in a     *)
(* patient's context holds only confirmed appointments of that patient,    *)
(* however the requests of the patients interleave.                        *)
(***************************************************************************)
C39_CancelsOnlyOwnAppointments ==
    /\ [][\A h \in Handlers :
              (/\ req[h].top = "webhook"
               /\ req[h].pc = "cancel_update"
               /\ req'[h] # req[h]
               /\ req[h].appt \in DOMAIN appointments) =>
                  appointments[req[h].appt].patient_id = req[h].patient]_vars
    /\ [](Quiescent =>
              \A p \in DOMAIN patients :
                  \A k \in DOMAIN patients[p].notes.appointments :
                      LET a == patients[p].notes.appointments[k].id
                      IN  /\ a \in DOMAIN appointments
                          /\ appointments[a].patient_id = p
                          /\ appointments[a].status = "confirmed")


(***************************************************************************)
(* C40 (specification SpecMedicalQuery).  On the path of a dermatology     *)
(* question "Drafting..." is sent only once the answer has arrived and the *)
(* status task has returned; it is followed by nothing but one final       *)
(* message, the answer or, when the answer is empty, the apology; every    *)
(* status message comes before it; and the request ends with exactly       *)
(* these two messages after the status messages.                           *)
(***************************************************************************)
C40_DraftingThenOneAnswer ==
    /\ [][\A h \in Handlers :
              req'[h].list # req[h].list =>
                  LET sent == req'[h].list[Len(req'[h].list)]
                  IN  /\ req'[h].list = Append(req[h].list, sent)
                      /\ sent \in {status_messages[i].message : i \in DOMAIN status_messages}
                             => req[h].pc = "dermatology"
                      /\ sent = "Drafting..." =>
                             /\ req[h].pc = "await_status"
                             /\ req[h].step = "status_done"]_vars
    /\ [](\A h \in Handlers :
              LET sent == req[h].list
                  final == IF req[h].reply = "empty" THEN "couldnt_process" ELSE "answer"
              IN  /\ \A i \in DOMAIN sent :
                         sent[i] = "Drafting..." =>
                             /\ \A j \in 1..(i - 1) : sent[j] = status_messages[j].message
                             /\ i - 1 <= Len(status_messages)
                             /\ Len(sent) <= i + 1
                             /\ Len(sent) = i + 1 => sent[i + 1] = final
                  /\ req[h].pc = "done" =>
                         /\ Len(sent) >= 2
                         /\ sent[Len(sent) - 1] = "Drafting..."
                         /\ sent[Len(sent)] = final
                         /\ req[h].step = "status_done")
    /\ \A h \in Handlers : <>[](req[h].pc = "done")

C40_Witness ==
    /\ req[1].pc = "done" /\ req[1].reply = "empty"
    /\ req[1].list = <<"Searching...", "Retrieving...", "Drafting...", "couldnt_process">>
    /\ req[2].pc = "done" /\ req[2].reply = "answer"
    /\ req[2].list = <<"Drafting...", "answer">>
=============================================================================
